---- MODULE Spec2Model ----
(***************************************************************************)
(* Model of the agent runtime of ioc-agentic-system:                       *)
(*   - ReactAgentV2.run            (backend/orchestrator/react_agent_v2.py)*)
(*   - EnhancedReactAgentV2._execute_plan                                  *)
(*                        (backend/orchestrator/enhanced_agent_integration)*)
(*   - FunctionRegistryService / SyncService / MilvusStore                 *)
(*                        (backend/registry/...)                           *)
(*   - stream_query.event_generator (backend/orchestrator/routes_v2.py)    *)
(*   - RetryExecutor / APIExecutor  (enhanced_components.py, executor/)    *)
(*   - ParameterSynthesizerV2       (backend/orchestrator/react_agent_v2)  *)
(* The specifications share the variables: SpecAgent, SpecPlan, SpecSync,  *)
(* SpecStream, SpecExec, SpecSynth.                                        *)
(***************************************************************************)
EXTENDS Integers, Sequences, FiniteSets, TLC

VARIABLES
    pc,          \* position of the driver inside run / _execute_plan
    state,       \* the AgentRunState (ReactAgentState) of the run
    hasCallback, \* a stream_callback was passed to run
    cbReturns,   \* an awaited stream_callback call comes back (returns or raises)
    failure,     \* history: what went wrong inside the latest step of run
    event_queue, \* events handed to stream_callback and not yet taken (asyncio.Queue)
    produced,    \* history: every event handed to stream_callback, in order
    yielded,     \* SSE events event_generator has yielded to the client
    gen,         \* position of event_generator
    exec,        \* one RetryExecutor.execute_with_retry call
    synth,       \* one ParameterSynthesizerV2.synthesize call
    store,       \* function_registry row and Redis key of one function_id, and
                 \* the registry / executor calls in flight on it
    profiles,    \* user_profiles rows and the stub's dict entry of one user_id,
                 \* and the get_or_create_profile calls in flight
    sel,         \* one HybridFunctionSelector.select_functions call
    seq,         \* one APIExecutor.execute_sequential call
    shared,      \* the process-wide ReactAgentV2 and the requests served through it
    plan,        \* ExecutionPlan.steps: step id -> depends_on
    completed,   \* completed_steps of _execute_plan
    batch,       \* next_steps of the current _execute_plan round still to run
    registry,    \* function_registry table: function_id -> content or NoRow
    events,      \* sync_events table, event_id = position
    index,       \* Milvus collection: <<function_id, content>> -> vectors held
    workers,     \* process_pending_events tasks
    reqs,        \* registry requests between entity commit and log_event
    committed,   \* history: <<entity_id, op>> -> committed registry mutations
    applied,     \* history: events dispatched without error at least once
    last         \* history: the latest dispatch, [ev, ok]

agentVars == <<pc, state, hasCallback, cbReturns, failure, event_queue, produced>>
planVars  == <<plan, completed, batch>>
syncVars  == <<registry, events, index, workers, reqs, committed, applied, last>>
streamVars == <<yielded, gen>>
vars      == <<pc, state, hasCallback, cbReturns, failure, event_queue, produced,
               yielded, gen, exec, synth, store, profiles, sel, seq, shared, plan, completed, batch,
               registry, events, index, workers, reqs, committed, applied, last>>

\* what ReactAgentV2.run, _execute_plan and the sync pipeline leave alone
runFrame  == <<hasCallback, cbReturns, streamVars, planVars, syncVars, exec, synth,
               store, profiles, sel, seq, shared>>
planFrame == <<cbReturns, failure, event_queue, produced, streamVars, syncVars,
               exec, synth, store, profiles, sel, seq, shared>>
syncFrame == <<agentVars, streamVars, planVars, exec, synth, store, profiles, sel, seq, shared>>

----------------------------------------------------------------------------
(* Bounds *)

MaxMaxSteps == 3      \* largest max_iterations an agent is constructed with
MaxPlanSteps == 3     \* largest number of steps in an execution plan
NumIds == 1           \* function ids in use
NumContents == 2      \* distinct {name, description, category} contents
MaxMutations == 3     \* registry mutations in one behaviour
NumWorkers == 2       \* process_pending_events tasks that can run at once
MaxCopies == 2        \* vectors counted per <<id, content>>; more count as this
MaxFaults == 3        \* dispatches that raise in one behaviour
MaxLogged == 2        \* events in the table when the worker is triggered
NumFunctions == 2     \* functions the retriever can return
MaxSeqCalls == 2      \* calls in one execute_sequential request
NumRequests == 2      \* requests served at once through the shared agent
MaxObserves == 2      \* _enhanced_observe calls of one run
MaxRequests == 2      \* executor calls after the first in one behaviour
MaxDbFaults == 2      \* update_usage_stats calls that raise in one execution
NumClients == 2       \* requests that can be inside the registry at once
MaxCalls == 4         \* registry / executor calls in one behaviour

(* Program constants *)

QualityThresholdV2 == 750   \* ReactAgentV2 quality_threshold 0.75, per mille
QualityThresholdV1 == 800   \* EnhancedReactAgentV1 quality_threshold 0.8
MaxRetries == 3             \* SyncEvent.max_retries default
DefaultBatchSize == 10      \* batch_size default of POST /sync/process
MinBatchSize == 1           \* batch_size lower limit of POST /sync/process
RuleThreshold == 85         \* rule_confidence_threshold default
LlmConfidence == 70         \* confidence returned with the LLM tier's selection
RankWeights == <<100, 70, 50, 30, 20>>   \* weights of _calculate_rag_confidence
NoPlanExpected == 2          \* observations _check_completeness expects without a plan
AgentMaxRetries == 2        \* max_retries of the RetryExecutor ReactAgentV2 builds
HttpMaxAttempts == 3        \* stop_after_attempt of _execute_http_request

\* scores _check_output_format can give, in tenths (0 = no final answer)
FormatScores == {0, 3, 4, 6, 7, 10}

----------------------------------------------------------------------------
(* AgentRunState *)

create_initial_state(max_steps) ==
    [ current_step  |-> 0,
      max_steps     |-> max_steps,
      thoughts      |-> << >>,
      actions       |-> << >>,
      observations  |-> << >>,
      reflections   |-> << >>,
      final_answer  |-> -1,          \* None; otherwise its format score
      quality_score |-> <<0, 1>>,
      status        |-> "thinking",
      error         |-> FALSE,       \* None; TRUE once str(e) is stored
      total_execution_time_ms |-> FALSE ]   \* 0.0; TRUE once stamped

Min(a, b) == IF a <= b THEN a ELSE b

SuccessCount(obs) == Cardinality({i \in 1..Len(obs) : obs[i].success})

\* validate_completion with the completeness computed by integer division
\* (len(observations) // 2)
validate_completionIntDiv(s) ==
    LET nobs == Len(s.observations)
        n    == IF nobs = 0 THEN 1 ELSE nobs
        cov  == IF Len(s.actions) > 0 THEN 1 ELSE 0
        fmt  == IF s.final_answer < 0 THEN 0 ELSE s.final_answer
    IN << 600 * Min(nobs \div 2, 1) * n
          + 600 * n * cov
          + 500 * SuccessCount(s.observations)
          + 30 * fmt * n,
          2000 * n >>

\* QualityValidator.validate_completion without a plan, as the exact fraction
\* <<numerator, denominator>>: 0.3*completeness + 0.3*coverage
\* + 0.25*reliability + 0.15*format_valid over the denominator 2000*n.
validate_completion(s) ==
    LET nobs == Len(s.observations)
        n    == IF nobs = 0 THEN 1 ELSE nobs
        cov  == IF Len(s.actions) > 0 THEN 1 ELSE 0
        fmt  == IF s.final_answer < 0 THEN 0 ELSE s.final_answer
    IN << 300 * Min(nobs, 2) * n          \* completeness = min(nobs/2, 1)
          + 600 * n * cov                 \* coverage = 1.0 if actions else 0.0
          + 500 * SuccessCount(s.observations)   \* reliability = succ/nobs
          + 30 * fmt * n,                 \* format_valid
          2000 * n >>

\* QualityValidator._check_completeness as the fraction <<numerator,
\* denominator>>; steps = 0 stands for `plan` being None.  Without a plan
\* every observation counts, with a plan the successful ones.
check_completeness(s, steps) ==
    IF steps = 0
    THEN <<Min(Len(s.observations), NoPlanExpected), NoPlanExpected>>
    ELSE <<Min(SuccessCount(s.observations), steps), steps>>

\* quality.overall >= threshold, threshold in per mille
QualityAtLeast(q, threshold) == q[1] * 1000 >= threshold * q[2]

----------------------------------------------------------------------------
(* ReactAgentV2.run *)

Append1(s, field, x) == [s EXCEPT ![field] = Append(@, x)]

\* the `while state["current_step"] < state["max_steps"]` guard
LoopGuard(s) == s.current_step < s.max_steps

\* _should_act on the thought just appended
should_act(s) == s.thoughts[Len(s.thoughts)].acts

\* _enhanced_reflect: the reflection parsed from the LLM reply (llmContinue),
\* its quality overwritten by validate_completion, should_continue forced to
\* False when the quality passes or the step budget is used up.
enhanced_reflect(s, llmContinue) ==
    LET q == validate_completion(s)
    IN [ step            |-> s.current_step,
         quality_score   |-> q,
         should_continue |->
             IF QualityAtLeast(q, QualityThresholdV2) THEN FALSE
             ELSE IF s.current_step >= s.max_steps THEN FALSE
             ELSE llmContinue ]

\* the `except Exception` handler with the lists of the state emptied
RunFailedReset(s) ==
    [s EXCEPT !.status = "failed", !.error = TRUE,
              !.total_execution_time_ms = TRUE,
              !.thoughts = << >>, !.actions = << >>, !.observations = << >>]

\* the `except Exception` handler of run
RunFailed(s) ==
    [s EXCEPT !.status = "failed", !.error = TRUE,
              !.total_execution_time_ms = TRUE]

\* step_number of the next thought / action / observation event
StepEvents == {"thought", "action", "observation"}
step_number(q) ==
    Cardinality({i \in 1..Len(q) : q[i].type \in StepEvents}) + 1

\* `if stream_callback: await stream_callback(type, {...})`, the call having
\* returned: the callback has got the event
Emit(type) ==
    IF hasCallback
    THEN LET ev == [type |-> type,
                    step_number |-> IF type \in StepEvents
                                    THEN step_number(produced) ELSE 0]
         IN /\ event_queue' = Append(event_queue, ev)
            /\ produced' = Append(produced, ev)
    ELSE UNCHANGED <<event_queue, produced>>

\* the awaited callback comes back
CallbackDone == hasCallback => cbReturns

\* stream "start" event, _build_context (which falls back instead of raising)
RunStart ==
    /\ pc = "start"
    /\ CallbackDone
    /\ Emit("start")
    /\ pc' = "select"
    /\ failure' = "none"
    /\ UNCHANGED <<state, runFrame>>

\* selection whose empty result returns without the fixed final answer
SelectFunctionsNoAnswer ==
    /\ pc = "select"
    /\ \E found \in BOOLEAN :
         IF found
         THEN /\ pc' = "loop"
              /\ UNCHANGED state
         ELSE /\ pc' = "returned"
              /\ state' = [state EXCEPT !.status = "completed",
                                        !.total_execution_time_ms = TRUE,
                                        !.quality_score = <<0, 1>>]
    /\ failure' = "none"
    /\ UNCHANGED <<event_queue, produced, runFrame>>

\* hybrid_selector.select_functions; an empty list ends in _handle_no_functions
SelectFunctions ==
    /\ pc = "select"
    /\ \E found \in BOOLEAN :
         IF found
         THEN /\ pc' = "loop"
              /\ UNCHANGED state
         ELSE /\ pc' = "returned"
              /\ state' = [state EXCEPT !.status = "completed",
                                        !.final_answer = 7,
                                        !.total_execution_time_ms = TRUE,
                                        !.quality_score = <<0, 1>>]
    /\ failure' = "none"
    /\ UNCHANGED <<event_queue, produced, runFrame>>

\* the loop head with the `current_step += 1` forgotten
LoopHeadNoIncrement ==
    /\ pc = "loop"
    /\ pc' = IF LoopGuard(state) THEN "think" ELSE "final"
    /\ failure' = "none"
    /\ UNCHANGED <<state, event_queue, produced, runFrame>>

\* loop head: enter the next iteration or leave for the final answer
LoopHead ==
    /\ pc = "loop"
    /\ IF LoopGuard(state)
       THEN /\ state' = [state EXCEPT !.current_step = @ + 1]
            /\ pc' = "think"
       ELSE /\ pc' = "final"
            /\ UNCHANGED state
    /\ failure' = "none"
    /\ UNCHANGED <<event_queue, produced, runFrame>>

\* what the THINK call gives: a text with an action indicator, a text
\* without one, or the timeout fallback (which has none)
ThinkReplies == {"call", "plain", "timeout"}

\* THINK: the thought is appended
Think ==
    /\ pc = "think"
    /\ Len(state.thoughts) <= MaxMaxSteps    \* keeps the state space finite
    /\ \E reply \in ThinkReplies :
         /\ state' = Append1(state, "thoughts",
                             [step |-> state.current_step,
                              acts |-> reply = "call"])
         /\ failure' = IF reply = "timeout" THEN "think_timeout" ELSE "none"
    /\ pc' = "cb_thought"
    /\ UNCHANGED <<event_queue, produced, runFrame>>

\* stream "thought" event delivered; then the _should_act decision
ThoughtStreamed ==
    /\ pc = "cb_thought"
    /\ CallbackDone
    /\ Emit("thought")
    /\ pc' = IF should_act(state) THEN "act" ELSE "reflect"
    /\ failure' = "none"
    /\ UNCHANGED <<state, runFrame>>

\* how _enhanced_act ends: an AgentAction, or None for one of four reasons
ActOutcomes == {"action", "act_timeout", "no_function_name",
                "unknown_function", "synthesis_failed"}

\* ACT with a None action treated as the failure of the run
ActNoneFailsRun ==
    /\ pc = "act"
    /\ \E out \in ActOutcomes :
         IF out = "action"
         THEN /\ state' = Append1(state, "actions", [step |-> state.current_step])
              /\ pc' = "cb_action"
              /\ failure' = "none"
         ELSE /\ pc' = "returned"
              /\ failure' = out
              /\ state' = RunFailed(state)
    /\ UNCHANGED <<event_queue, produced, runFrame>>

\* _enhanced_act and `if action: state["actions"].append(action)`
Act ==
    /\ pc = "act"
    /\ \E out \in ActOutcomes :
         IF out = "action"
         THEN /\ state' = Append1(state, "actions", [step |-> state.current_step])
              /\ pc' = "cb_action"
              /\ failure' = "none"
         ELSE /\ pc' = "reflect"
              /\ failure' = out
              /\ UNCHANGED state
    /\ UNCHANGED <<event_queue, produced, runFrame>>

\* stream "action" event delivered
ActionStreamed ==
    /\ pc = "cb_action"
    /\ CallbackDone
    /\ Emit("action")
    /\ pc' = "observe"
    /\ failure' = "none"
    /\ UNCHANGED <<state, runFrame>>

\* _enhanced_observe: execute_with_retry returns a result dict in every case
Observe ==
    /\ pc = "observe"
    /\ \E ok \in BOOLEAN :
         /\ state' = Append1(state, "observations",
                             [step |-> state.current_step, success |-> ok])
         /\ failure' = IF ok THEN "none" ELSE "execution_failed"
    /\ pc' = "cb_observation"
    /\ UNCHANGED <<event_queue, produced, runFrame>>

\* stream "observation" event delivered
ObservationStreamed ==
    /\ pc = "cb_observation"
    /\ CallbackDone
    /\ Emit("observation")
    /\ pc' = "reflect"
    /\ failure' = "none"
    /\ UNCHANGED <<state, runFrame>>

\* what the REFLECT call gives: "Continue: yes", anything else, or the
\* timeout fallback, which reads "Continue: yes"
ReflectReplies == {"yes", "no", "timeout"}

\* REFLECT and the `if not reflection.should_continue: break`
Reflect ==
    /\ pc = "reflect"
    /\ \E reply \in ReflectReplies :
         LET r == enhanced_reflect(state, reply # "no")
         IN /\ state' = Append1(state, "reflections", r)
            /\ pc' = IF r.should_continue THEN "loop" ELSE "final"
            /\ failure' = IF reply = "timeout" THEN "reflect_timeout" ELSE "none"
    /\ UNCHANGED <<event_queue, produced, runFrame>>

\* _generate_final_answer: the LLM text, or on a timeout the apology, whose
\* format score is that of the no-functions message
FinalAnswer ==
    /\ pc = "final"
    /\ \E timeout \in BOOLEAN, fmt \in FormatScores :
         /\ timeout => fmt = 7
         /\ state' = [state EXCEPT !.final_answer = fmt]
         /\ failure' = IF timeout THEN "final_timeout" ELSE "none"
    /\ pc' = "cb_final"
    /\ UNCHANGED <<event_queue, produced, runFrame>>

\* the end of run with the status set to completed whatever the quality
FinishAlwaysCompleted ==
    /\ pc = "cb_final"
    /\ CallbackDone
    /\ Emit("final_answer")
    /\ state' = [state EXCEPT !.quality_score = validate_completion(state),
                              !.total_execution_time_ms = TRUE,
                              !.status = "completed"]
    /\ pc' = "returned"
    /\ failure' = "none"
    /\ UNCHANGED <<runFrame>>

\* stream "final_answer" delivered, quality validation, status, return
Finish ==
    /\ pc = "cb_final"
    /\ CallbackDone
    /\ Emit("final_answer")
    /\ LET q == validate_completion(state)
       IN state' = [state EXCEPT
                      !.quality_score = q,
                      !.total_execution_time_ms = TRUE,
                      !.status = IF QualityAtLeast(q, QualityThresholdV2)
                                 THEN "completed" ELSE "incomplete"]
    /\ pc' = "returned"
    /\ failure' = "none"
    /\ UNCHANGED <<runFrame>>

\* places where an LLM call or the selector can raise
RaisingCalls == {"select", "think", "act", "reflect", "final"}
\* places where run awaits the caller's stream_callback
CallbackPoints == {"start", "cb_thought", "cb_action", "cb_observation", "cb_final"}

\* an exception escapes a phase and is caught by run's handler
Raise ==
    /\ \/ pc \in RaisingCalls
       \/ pc \in CallbackPoints /\ hasCallback /\ cbReturns
    /\ state' = RunFailed(state)
    /\ pc' = "returned"
    /\ failure' = "exception"
    /\ UNCHANGED <<event_queue, produced, runFrame>>

----------------------------------------------------------------------------
(* stream_query.event_generator and its run_agent task *)

StartEvent == [type |-> "start", step_number |-> 0]
\* the (None, None) end signal
EndSignal == [type |-> "end", step_number |-> 0]

\* the generator's own `yield "event: start ..."`, before anything else
GenYieldStart ==
    /\ gen = "begin"
    /\ yielded' = Append(yielded, StartEvent)
    /\ gen' = "started"
    /\ UNCHANGED <<agentVars, planVars, syncVars, exec, synth, store, profiles, sel, seq, shared>>

\* agent_task = asyncio.create_task(run_agent()): agent.run starts with
\* queue_callback as its stream_callback
GenCreateTask ==
    /\ gen = "started"
    /\ gen' = "streaming"
    /\ pc' = "start"
    /\ UNCHANGED <<state, hasCallback, cbReturns, failure, event_queue, produced,
                   yielded, planVars, syncVars, exec, synth, store, profiles, sel, seq, shared>>

\* the queue read from the wrong end
GenNextNewestFirst ==
    /\ gen = "streaming"
    /\ event_queue # << >>
    /\ event_queue' = SubSeq(event_queue, 1, Len(event_queue) - 1)
    /\ IF event_queue[Len(event_queue)] = EndSignal
       THEN gen' = "closed" /\ UNCHANGED yielded
       ELSE yielded' = Append(yielded, event_queue[Len(event_queue)])
            /\ UNCHANGED gen
    /\ UNCHANGED <<pc, state, hasCallback, cbReturns, failure, produced,
                   planVars, syncVars, exec, synth, store, profiles, sel, seq, shared>>

\* one pass of `while True: event_type, data = await event_queue.get()`:
\* the end signal breaks the loop, any other item is yielded
GenNext ==
    /\ gen = "streaming"
    /\ event_queue # << >>
    /\ event_queue' = Tail(event_queue)
    /\ IF Head(event_queue) = EndSignal
       THEN gen' = "closed" /\ UNCHANGED yielded
       ELSE yielded' = Append(yielded, Head(event_queue)) /\ UNCHANGED gen
    /\ UNCHANGED <<pc, state, hasCallback, cbReturns, failure, produced,
                   planVars, syncVars, exec, synth, store, profiles, sel, seq, shared>>

\* run_agent after agent.run returned: the "complete" event is put
RunAgentComplete ==
    /\ pc = "returned"
    /\ Emit("complete")
    /\ pc' = "task_finally"
    /\ UNCHANGED <<state, failure, runFrame>>

\* run_agent's finally: the end signal is put
RunAgentFinally ==
    /\ pc = "task_finally"
    /\ event_queue' = Append(event_queue, EndSignal)
    /\ pc' = "task_done"
    /\ UNCHANGED <<state, failure, produced, runFrame>>

\* an LLM call or the selector raises; queue_callback itself never does
RaiseInCall ==
    /\ pc \in RaisingCalls
    /\ Raise

----------------------------------------------------------------------------
(* EnhancedReactAgentV2._execute_plan *)

NoPlan == [steps |-> 0, depends_on |-> << >>, parallel |-> FALSE]
NoBatch == [todo |-> << >>, running |-> {}]

\* plans the planner can return: steps 1..n in plan order, each with the ids
\* it depends on (cycles included); parallel = the steps name each other in
\* can_parallel_with
Plans ==
    UNION { { [steps |-> n, depends_on |-> d, parallel |-> p] :
                d \in {f \in [1..n -> SUBSET (1..n)] : \A i \in 1..n : i \notin f[i]},
                p \in BOOLEAN } :
            n \in 1..MaxPlanSteps }

\* ExecutionPlan.has_pending_steps
has_pending_steps(pl, done) == Cardinality(done) < pl.steps

\* ExecutionPlan.get_next_steps, as the set of step ids
get_next_steps(pl, done) ==
    {i \in 1..pl.steps : i \notin done /\ pl.depends_on[i] \subseteq done}

\* ExecutionPlan.can_execute_parallel
can_execute_parallel(pl, next) == Cardinality(next) > 1 /\ pl.parallel

RECURSIVE SortedSeq(_)
\* the steps of a set in plan order
SortedSeq(S) ==
    IF S = {} THEN << >>
    ELSE LET m == CHOOSE x \in S : \A y \in S : x <= y
         IN <<m>> \o SortedSeq(S \ {m})

\* EnhancedReactAgentV2._reflect
plan_reflect(s) ==
    LET q == validate_completion(s)
    IN [ step            |-> s.current_step,
         quality_score   |-> q,
         should_continue |-> ~QualityAtLeast(q, QualityThresholdV1) ]

\* loop head of _execute_plan: the next executable steps, or leave the loop
PlanLoop ==
    /\ pc = "plan_loop"
    /\ IF has_pending_steps(plan, completed)
          /\ get_next_steps(plan, completed) # {}
       THEN /\ batch' = [todo |-> SortedSeq(get_next_steps(plan, completed)),
                         running |-> {}]
            /\ pc' = "plan_batch"
       ELSE /\ pc' = "plan_done"
            /\ UNCHANGED batch
    /\ UNCHANGED <<state, hasCallback, plan, completed, planFrame>>

\* _execute_single_step up to its await: the action is appended.  Without
\* gather the next step starts only when the previous one has finished.
PlanStepStart ==
    /\ pc = "plan_batch"
    /\ batch.todo # << >>
    /\ \/ can_execute_parallel(plan, get_next_steps(plan, completed))
       \/ batch.running = {}
    /\ state' = Append1(state, "actions", [step |-> state.current_step])
    /\ batch' = [todo |-> Tail(batch.todo),
                 running |-> batch.running \cup {Head(batch.todo)}]
    /\ UNCHANGED <<pc, hasCallback, plan, completed, planFrame>>

\* _observe returns for a running step: the observation is appended.  Under
\* gather every step has been started before the first one resumes.
PlanStepObserve ==
    /\ pc = "plan_batch"
    /\ \/ batch.todo = << >>
       \/ ~can_execute_parallel(plan, get_next_steps(plan, completed))
    /\ \E i \in batch.running, ok \in BOOLEAN :
         /\ state' = Append1(state, "observations",
                             [step |-> state.current_step, success |-> ok])
         /\ batch' = [batch EXCEPT !.running = @ \ {i}]
    /\ UNCHANGED <<pc, hasCallback, plan, completed, planFrame>>

\* end of a round: results stored, current_step += 1, reflection appended,
\* break when the reflection says stop
PlanBatchDone ==
    /\ pc = "plan_batch"
    /\ batch.todo = << >> /\ batch.running = {}
    /\ completed' = completed \cup get_next_steps(plan, completed)
    /\ LET s1 == [state EXCEPT !.current_step = @ + 1]
           r  == plan_reflect(s1)
       IN /\ state' = Append1(s1, "reflections", r)
          /\ pc' = IF r.should_continue THEN "plan_loop" ELSE "plan_done"
    /\ UNCHANGED <<hasCallback, plan, batch, planFrame>>

----------------------------------------------------------------------------
(* RetryExecutor.execute_with_retry over APIExecutor.execute_function *)

\* how one HTTP request ends: 2xx with a JSON body, 2xx with a body that is
\* not JSON, httpx.TimeoutException, httpx.NetworkError, HTTP >= 400
\* (HTTPStatusError), any other exception
HttpOutcomes == {"ok", "bad_json", "timeout", "network", "status", "other"}

\* retry_if_exception_type((httpx.TimeoutException, httpx.NetworkError))
TenacityRetries(outcome) == outcome \in {"timeout", "network"}

\* RetryExecutor._should_retry: the listed non-retryable types stop, every
\* other type (listed as retryable or unknown) is retried
NonRetryable == {"ValidationError", "AuthenticationError", "PermissionError",
                 "ValueError", "KeyError"}
should_retry(error_type) == error_type \notin NonRetryable

NoResult == [success |-> FALSE, attempts |-> 0, data_success |-> FALSE]
\* cache_ttl values a registered function can carry: FunctionCreate.cache_ttl
\* is an int without a lower bound, 300 by default
DefaultCacheTtl == 300
TtlValues == {0, DefaultCacheTtl}

\* the Redis key api_result:<function_id>:<hash of parameters>: absent, set
\* with an expiry (SETEX), or set without one (SET)
EntryStates == {"none", "expiring", "persistent"}

\* RedisCache.set: `if ttl:` chooses SETEX, a ttl of 0 or None chooses SET
cache_set(ttl) == IF ttl # 0 THEN "expiring" ELSE "persistent"

NoExec == [pc |-> "idle", attempt |-> 0, inner |-> 0, http |-> << >>,
           usage |-> << >>, branch |-> TRUE, raised |-> "", fn_success |-> FALSE,
           db_faults |-> 0, result |-> NoResult,
           ttl |-> DefaultCacheTtl, use_cache |-> TRUE, entry |-> "none",
           fn_cached |-> FALSE, requests |-> 0]

execFrame == <<agentVars, streamVars, planVars, syncVars, synth, store, profiles, sel, seq, shared>>

\* one pass of `for attempt in range(self.max_retries)`: execute_function
\* starts with get_function: the function is missing (ValueError); with
\* use_cache and a cached result under the key it returns at once; otherwise
\* the request is built
CallExecute ==
    /\ exec.pc = "call"
    /\ \E found \in BOOLEAN :
         exec' = IF ~found
                 THEN [exec EXCEPT !.pc = "back", !.raised = "ValueError",
                                   !.fn_cached = FALSE]
                 ELSE IF exec.use_cache /\ exec.entry # "none"
                 THEN [exec EXCEPT !.pc = "back", !.raised = "",
                                   !.fn_success = TRUE, !.fn_cached = TRUE]
                 ELSE [exec EXCEPT !.pc = "http", !.inner = 0,
                                   !.fn_cached = FALSE]
    /\ UNCHANGED execFrame

\* one request of _execute_http_request under tenacity: retried after a
\* timeout or network error while fewer than 3 attempts were made; the last
\* such failure raises RetryError, any other failure raises at once; either
\* lands in execute_function's `except Exception`.  After a parsed 2xx
\* answer the result is cached with the function's cache_ttl when use_cache.
HttpAttempt ==
    /\ exec.pc = "http"
    /\ \E outcome \in HttpOutcomes :
         exec' = [exec EXCEPT
                    !.http = Append(@, outcome),
                    !.inner = @ + 1,
                    !.pc = IF TenacityRetries(outcome) /\ exec.inner + 1 < HttpMaxAttempts
                           THEN "http" ELSE "usage",
                    !.branch = outcome = "ok",
                    !.entry = IF outcome = "ok" /\ exec.use_cache
                              THEN cache_set(exec.ttl) ELSE @]
    /\ UNCHANGED execFrame

\* registry_service.update_usage_stats(success=branch).  Raising in the try
\* block leads to the except block and its own update_usage_stats(False);
\* raising in the except block leaves execute_function.
UpdateUsage ==
    /\ exec.pc = "usage"
    /\ \E raises \in BOOLEAN :
         /\ raises => exec.db_faults < MaxDbFaults
         /\ exec' = [exec EXCEPT
                       !.usage = Append(@, exec.branch),
                       !.db_faults = IF raises THEN @ + 1 ELSE @,
                       !.branch = IF raises THEN FALSE ELSE @,
                       !.pc = IF raises /\ exec.branch THEN "usage" ELSE "back",
                       !.raised = IF raises /\ ~exec.branch THEN "OperationalError"
                                  ELSE "",
                       !.fn_success = exec.branch /\ ~raises]
    /\ UNCHANGED execFrame

\* execute_with_retry after execute_function came back: a returned dict is
\* wrapped as success with attempts = attempt + 1; an exception breaks the
\* loop when not retryable, else the loop goes on while attempts are left;
\* leaving the loop gives success = False with attempts = max_retries
HandleOutcome ==
    /\ exec.pc = "back"
    /\ exec' =
         IF exec.raised = ""
         THEN [exec EXCEPT !.pc = "done",
                           !.result = [success |-> TRUE,
                                       attempts |-> exec.attempt + 1,
                                       data_success |-> exec.fn_success]]
         ELSE IF should_retry(exec.raised) /\ exec.attempt + 1 < AgentMaxRetries
         THEN [exec EXCEPT !.pc = "call", !.attempt = @ + 1]
         ELSE [exec EXCEPT !.pc = "done",
                           !.result = [success |-> FALSE,
                                       attempts |-> AgentMaxRetries,
                                       data_success |-> FALSE]]
    /\ UNCHANGED execFrame

\* the next call of the executor for the same function and parameters, by
\* any caller (use_cache is execute_function's argument); the Redis key and
\* the function row stay
NextRequest ==
    /\ exec.pc = "done"
    /\ exec.requests < MaxRequests
    /\ \E use_cache \in BOOLEAN :
         exec' = [NoExec EXCEPT !.pc = "call", !.ttl = exec.ttl,
                                !.entry = exec.entry,
                                !.use_cache = use_cache,
                                !.requests = exec.requests + 1]
    /\ UNCHANGED execFrame

\* Redis drops a key whose expiry has passed
Expire ==
    /\ exec.entry = "expiring"
    /\ exec' = [exec EXCEPT !.entry = "none"]
    /\ UNCHANGED execFrame

\* _enhanced_observe: the observation built from the result dict
enhanced_observe(result) == [success |-> result.success]

----------------------------------------------------------------------------
(* ParameterSynthesizerV2.synthesize *)

\* parameter names: the three the templates and extractors know, and user_id
ParamNames == {"region", "period", "metric", "user_id"}
\* what the templates and extractors can fill in
KnownParams == {"region", "period", "metric"}
\* JSON types of a value; a type stands for every per-value rule of a schema
ParamTypes == {"string", "integer"}

\* function_schema["parameters"]: properties (name -> declared type) and required
FunctionSchemas ==
    UNION { { [properties |-> p, required |-> r] :
                p \in [props -> ParamTypes], r \in SUBSET props } :
            props \in SUBSET ParamNames }

\* parameter dicts: name -> type of the value
ParamDicts == UNION { [names -> ParamTypes] : names \in SUBSET ParamNames }

NoSynth == [pc |-> "idle"]

\* _validate_parameters: every required name is a key of params
validate_parameters(params, schema) ==
    schema.required \subseteq DOMAIN params

\* _try_template on a query a template pattern matches: the template's fixed
\* parameters, plus user_id when the context has one
try_template(ctx_user_id) ==
    [p \in KnownParams \cup (IF ctx_user_id THEN {"user_id"} ELSE {})
       |-> "string"]

\* _try_extraction when the patterns of `hits` match the query: a string for
\* each hit whose name is a property; success with something found and every
\* required name among it
try_extraction(schema, hits) ==
    LET params == [p \in hits \cap DOMAIN schema.properties |-> "string"]
    IN [success |-> DOMAIN params # {} /\ schema.required \subseteq DOMAIN params,
        params  |-> params]

\* the loop body of synthesize for one strategy: accept the parameters when
\* the strategy succeeded, gave a non-empty dict and it validates; otherwise
\* go on with the next strategy, or give up after the last
Conclude(success, params, strategy, next) ==
    LET t == [strategy |-> strategy, ok |-> success,
              params |-> IF success THEN params ELSE << >>]
    IN IF success /\ DOMAIN params # {}
          /\ validate_parameters(params, synth.function_schema)
       THEN synth' = [synth EXCEPT !.pc = "done", !.success = TRUE,
                                   !.params = params, !.strategy = strategy,
                                   !.tried = Append(@, t)]
       ELSE IF next = "done"
       THEN synth' = [synth EXCEPT !.pc = "done", !.success = FALSE,
                                   !.tried = Append(@, t)]
       ELSE synth' = [synth EXCEPT !.pc = next, !.tried = Append(@, t)]

synthFrame == <<agentVars, streamVars, planVars, syncVars, exec, store, profiles, sel, seq, shared>>

TryTemplate ==
    /\ synth.pc = "template"
    /\ \E matched \in BOOLEAN :
         Conclude(matched, try_template(synth.ctx_user_id), "template", "extraction")
    /\ UNCHANGED synthFrame

TryExtraction ==
    /\ synth.pc = "extraction"
    /\ \E hits \in SUBSET KnownParams :
         LET r == try_extraction(synth.function_schema, hits)
         IN Conclude(r.success, r.params, "extraction", "context_reuse")
    /\ UNCHANGED synthFrame

\* _try_context_reuse: the required names found in earlier results, with
\* whatever values those results hold; success when all were found
TryContextReuse ==
    /\ synth.pc = "context_reuse"
    /\ \E params \in ParamDicts :
         /\ DOMAIN params \subseteq synth.function_schema.required
         /\ Conclude(DOMAIN params = synth.function_schema.required,
                     params, "context_reuse", "llm")
    /\ UNCHANGED synthFrame

\* _try_llm: the JSON object of the reply, or no usable reply
TryLLM ==
    /\ synth.pc = "llm"
    /\ \E parsed \in BOOLEAN, params \in ParamDicts :
         /\ ~parsed => DOMAIN params = {}
         /\ Conclude(parsed, params, "llm", "done")
    /\ UNCHANGED synthFrame

----------------------------------------------------------------------------
(* Function registry, sync events, vector index *)

Ids == 1..NumIds
Contents == 1..NumContents
NoRow == 0
Workers == 1..NumWorkers
Ops == {"INSERT", "UPDATE", "DELETE"}

IdleWorker == [pc |-> "idle", batch |-> << >>, ev |-> 0]
NoDispatch == [ev |-> 0, ok |-> FALSE]

SumCommitted == 
    LET RECURSIVE Sum(_)
        Sum(S) == IF S = {} THEN 0
                  ELSE LET x == CHOOSE x \in S : TRUE
                       IN committed[x] + Sum(S \ {x})
    IN Sum(Ids \X Ops)

\* the entity commit of create_function / update_function / delete_function:
\* the row change is committed, log_event is still to be called
CommitMutation(id, op, new_data) ==
    /\ SumCommitted < MaxMutations
    /\ [entity_id |-> id, operation |-> op, new_data |-> new_data] \notin reqs
    /\ registry' = [registry EXCEPT ![id] = new_data]
    /\ committed' = [committed EXCEPT ![<<id, op>>] = @ + 1]
    /\ reqs' = reqs \cup {[entity_id |-> id, operation |-> op, new_data |-> new_data]}
    /\ UNCHANGED <<events, index, workers, applied, last, syncFrame>>

\* contents some row, request, event or vector carries
UsedContents ==
    {c \in Contents :
        \/ \E id \in Ids : registry[id] = c \/ index[<<id, c>>] > 0
        \/ \E r \in reqs : r.new_data = c
        \/ \E i \in 1..Len(events) : events[i].new_data = c}

\* contents a request can carry: a used one, or the lowest unused one (the
\* contents are interchangeable)
RequestContents ==
    {c \in Contents : \A d \in Contents : d < c => d \in UsedContents}

\* create_function: refused when the id exists
CreateFunction ==
    \E id \in Ids, c \in RequestContents :
        /\ registry[id] = NoRow
        /\ CommitMutation(id, "INSERT", c)

\* update_function: None when the id is absent
UpdateFunction ==
    \E id \in Ids, c \in RequestContents :
        /\ registry[id] # NoRow
        /\ CommitMutation(id, "UPDATE", c)

\* delete_function: False when the id is absent
DeleteFunction ==
    \E id \in Ids :
        /\ registry[id] # NoRow
        /\ CommitMutation(id, "DELETE", NoRow)

\* SyncService.log_event: the event row is added and committed as pending
log_event(r) ==
    Append(events, [entity_id    |-> r.entity_id,
                    operation    |-> r.operation,
                    new_data     |-> r.new_data,
                    sync_status  |-> "pending",
                    retry_count  |-> 0])

LogEvent ==
    \E r \in reqs :
        /\ events' = log_event(r)
        /\ reqs' = reqs \ {r}
        /\ UNCHANGED <<registry, index, workers, committed, applied, last,
                       syncFrame>>

\* log_event raises (or the process dies before it): the registry method only
\* logs a warning, the mutation stays committed
LogEventFails ==
    \E r \in reqs :
        /\ reqs' = reqs \ {r}
        /\ UNCHANGED <<registry, events, index, workers, committed, applied, last,
                       syncFrame>>

----------------------------------------------------------------------------
(* SyncService: the worker *)

\* the WHERE clause of get_pending_events
Eligible(e) ==
    \/ e.sync_status = "pending"
    \/ e.sync_status = "failed" /\ e.retry_count < MaxRetries

RECURSIVE FirstN(_, _, _)
\* the first `limit` eligible event ids from position i on
FirstN(i, limit, evs) ==
    IF i > Len(evs) \/ limit = 0 THEN << >>
    ELSE IF Eligible(evs[i]) THEN <<i>> \o FirstN(i + 1, limit - 1, evs)
    ELSE FirstN(i + 1, limit, evs)

\* get_pending_events: eligible events ordered by created_at, limited
get_pending_events(limit) == FirstN(1, limit, events)

\* the "pending" count of get_sync_statistics read by POST /sync/process
PendingCount ==
    Cardinality({i \in 1..Len(events) : events[i].sync_status = "pending"})

\* MilvusStore.insert: the collection's primary key is auto-generated, so a
\* row is added whatever the collection already holds for the function_id
insert(idx, id, c) ==
    [idx EXCEPT ![<<id, c>>] = Min(@ + 1, MaxCopies)]

\* MilvusStore.delete_by_function_id: every row of the function_id goes
delete_by_function_id(idx, id) ==
    [k \in DOMAIN idx |-> IF k[1] = id THEN 0 ELSE idx[k]]

\* what a dispatch can do, by operation:
\*   ok             every store call succeeds
\*   raise          an error before the store is touched (_init_rag_components,
\*                  embedding, connection)
\*   partial        INSERT: the row is inserted, then flush raises
\*   del_fail       UPDATE/DELETE: the delete raises and is swallowed
\*   del_then_raise UPDATE: the delete succeeds, indexing the new row raises
Outcomes(op) ==
    CASE op = "INSERT" -> {"ok", "raise", "partial"}
      [] op = "UPDATE" -> {"ok", "raise", "del_fail", "del_then_raise"}
      [] op = "DELETE" -> {"ok", "raise", "del_fail"}

Raises(o) == o \in {"raise", "partial", "del_then_raise"}

\* _process_insert
process_insert(idx, e, o) ==
    IF o = "raise" THEN idx ELSE insert(idx, e.entity_id, e.new_data)

\* _process_update: delete (errors swallowed), then index the new row
process_update(idx, e, o) ==
    CASE o = "raise"          -> idx
      [] o = "del_then_raise" -> delete_by_function_id(idx, e.entity_id)
      [] o = "del_fail"       -> insert(idx, e.entity_id, e.new_data)
      [] OTHER -> insert(delete_by_function_id(idx, e.entity_id),
                         e.entity_id, e.new_data)

\* _process_delete: delete, errors swallowed
process_delete(idx, e, o) ==
    IF o = "ok" THEN delete_by_function_id(idx, e.entity_id) ELSE idx

\* the dispatch by operation in process_event
dispatch(idx, e, o) ==
    CASE e.operation = "INSERT" -> process_insert(idx, e, o)
      [] e.operation = "UPDATE" -> process_update(idx, e, o)
      [] e.operation = "DELETE" -> process_delete(idx, e, o)

RECURSIVE SumRetries(_, _)
\* the dispatches that have raised so far: each one added 1 to a retry_count
SumRetries(evs, i) ==
    IF i > Len(evs) THEN 0 ELSE evs[i].retry_count + SumRetries(evs, i + 1)

\* POST /sync/process: nothing is started when no event is pending.  The
\* tasks are interchangeable: the free one with the lowest number is taken.
RouteTrigger ==
    \E w \in Workers :
        /\ workers[w].pc = "idle"
        /\ \A v \in Workers : v < w => workers[v].pc # "idle"
        /\ PendingCount > 0
        /\ workers' = [workers EXCEPT ![w].pc = "scheduled"]
        /\ UNCHANGED <<registry, events, index, reqs, committed, applied, last,
                       syncFrame>>

\* process_pending_events: the batch is read once, then processed in order
WorkerSelect ==
    \E w \in Workers, limit \in {MinBatchSize, DefaultBatchSize} :
        /\ workers[w].pc = "scheduled"
        /\ LET b == get_pending_events(limit)
           IN workers' = [workers EXCEPT ![w] =
                 IF b = << >> THEN IdleWorker
                 ELSE [pc |-> "claim", batch |-> b, ev |-> 0]]
        /\ UNCHANGED <<registry, events, index, reqs, committed, applied, last,
                       syncFrame>>

\* process_event, first commit: the event of the batch is set to processing,
\* whatever its status has become since the batch was read
WorkerClaim ==
    \E w \in Workers :
        /\ workers[w].pc = "claim"
        /\ LET e == Head(workers[w].batch)
           IN /\ events' = [events EXCEPT ![e].sync_status = "processing"]
              /\ workers' = [workers EXCEPT ![w].pc = "dispatch", ![w].ev = e]
        /\ UNCHANGED <<registry, index, reqs, committed, applied, last,
                       syncFrame>>

\* process_event, dispatch and second commit: synced, or failed with
\* retry_count + 1 when the dispatch raised; then the next event of the batch
WorkerDispatch ==
    \E w \in Workers :
        /\ workers[w].pc = "dispatch"
        /\ LET e == workers[w].ev
               rest == Tail(workers[w].batch)
           IN \E o \in Outcomes(events[e].operation) :
                /\ Raises(o) => SumRetries(events, 1) < MaxFaults
                /\ index' = dispatch(index, events[e], o)
                /\ events' = IF Raises(o)
                             THEN [events EXCEPT ![e].sync_status = "failed",
                                                 ![e].retry_count = @ + 1]
                             ELSE [events EXCEPT ![e].sync_status = "synced"]
                /\ applied' = IF Raises(o) THEN applied ELSE applied \cup {e}
                /\ last' = [ev |-> e, ok |-> ~Raises(o)]
                /\ workers' = [workers EXCEPT ![w] =
                      IF rest = << >> THEN IdleWorker
                      ELSE [pc |-> "claim", batch |-> rest, ev |-> 0]]
        /\ UNCHANGED <<registry, reqs, committed, syncFrame>>

\* POST /sync/milvus, FunctionRegistryService.sync_to_milvus: the rows are
\* read from the registry; when the collection holds anything it is dropped
\* and created again; then every row read is embedded and inserted.  Nothing
\* is awaited between the clear and the insert.  It can raise before the
\* collection is touched (embedder, connection) or after the clear.
SyncToMilvus ==
    \E o \in {"ok", "raise", "clear_then_raise"} :
        /\ \E id \in Ids : registry[id] # NoRow
        /\ index' = CASE o = "raise" -> index
                      [] o = "clear_then_raise" ->
                            [k \in DOMAIN index |-> 0]
                      [] OTHER ->
                            [k \in DOMAIN index |->
                               IF registry[k[1]] = k[2] THEN 1 ELSE 0]
        /\ UNCHANGED <<registry, events, workers, reqs, committed, applied,
                       last, syncFrame>>

\* process_event, the commit of its except block raises (the database
\* connection is gone): the exception leaves process_event, the except of
\* process_pending_events logs it and the task ends with the rest of its
\* batch unprocessed; the committed row of the event is still "processing"
WorkerStops ==
    \E w \in Workers :
        /\ workers[w].pc = "dispatch"
        /\ workers' = [workers EXCEPT ![w] = IdleWorker]
        /\ UNCHANGED <<registry, events, index, reqs, committed, applied, last,
                       syncFrame>>

----------------------------------------------------------------------------
(* FunctionRegistryService over the function_registry table and its Redis
   read-through cache, for one function_id; APIExecutor.execute_function's
   lookup.  Every await is a step, so calls of different requests interleave. *)

Clients == 1..NumClients

StoreOps == {"get", "create", "update", "delete", "execute"}

NoCall == [op |-> "idle", pc |-> "done", live |-> FALSE, absent |-> FALSE]

NoStore ==
    [ db    |-> FALSE,                     \* the row exists
      cache |-> FALSE,                     \* the key function:{id} is set
      calls |-> [c \in Clients |-> NoCall],
      logged |-> 0,                        \* SyncEvents written for the id
      log   |-> << >> ]                    \* history: the calls that ended

InFlight(c) == store.calls[c].pc # "done"

\* a call ends: its result is recorded together with what it left behind
Ended(st, c, result) ==
    [st EXCEPT !.calls[c] = NoCall,
               !.log = Append(@, [op |-> st.calls[c].op, result |-> result,
                                  live |-> st.calls[c].live,
                                  absent |-> st.calls[c].absent,
                                  db |-> st.db, cache |-> st.cache])]

\* history: calls in flight learn that the row exists now
NowLive(st) ==
    [st EXCEPT !.calls = [c \in Clients |->
                            IF st.calls[c].pc # "done"
                            THEN [st.calls[c] EXCEPT !.live = TRUE]
                            ELSE st.calls[c]]]

\* history: calls in flight learn that the row is absent now
NowAbsent(st) ==
    [st EXCEPT !.calls = [c \in Clients |->
                            IF st.calls[c].pc # "done"
                            THEN [st.calls[c] EXCEPT !.absent = TRUE]
                            ELSE st.calls[c]]]

\* create_function going on to add + commit whatever get_function returned
AfterGetCreateUnchecked(st, c, found) ==
    CASE st.calls[c].op = "get" ->
             Ended(st, c, IF found THEN "found" ELSE "None")
      [] st.calls[c].op = "create" ->
             [st EXCEPT !.calls[c].pc = "commit"]
      [] st.calls[c].op = "execute" ->
             Ended(st, c, IF found THEN "request" ELSE "ValueError")

\* what follows get_function's return value in the three callers
AfterGet(st, c, found) ==
    CASE st.calls[c].op = "get" ->
             Ended(st, c, IF found THEN "found" ELSE "None")
      [] st.calls[c].op = "create" ->
             IF found THEN Ended(st, c, "ValueError")
             ELSE [st EXCEPT !.calls[c].pc = "commit"]
      [] st.calls[c].op = "execute" ->
             Ended(st, c, IF found THEN "request" ELSE "ValueError")

storeFrame == <<agentVars, streamVars, planVars, syncVars, exec, synth, profiles, sel, seq, shared>>

\* a request enters get_function, create_function, update_function,
\* delete_function or execute_function; update_function and delete_function
\* read with use_cache = False.  The clients are interchangeable: the free
\* one with the lowest number takes the request.
Call(c, op) ==
    /\ ~InFlight(c)
    /\ \A d \in Clients : d < c => InFlight(d)
    /\ Len(store.log) + Cardinality({d \in Clients : InFlight(d)}) < MaxCalls
    /\ store' = [store EXCEPT
                   !.calls[c] = [op |-> op,
                                 pc |-> IF op \in {"update", "delete"}
                                        THEN "db_query" ELSE "cache_get",
                                 live |-> store.db,
                                 absent |-> ~store.db]]
    /\ UNCHANGED storeFrame

\* get_function: `cached = await cache.get(...)`, returned when present
CacheGet(c) ==
    /\ store.calls[c].pc = "cache_get"
    /\ store' = IF store.cache
                THEN AfterGet(store, c, TRUE)
                ELSE [store EXCEPT !.calls[c].pc = "db_query"]
    /\ UNCHANGED storeFrame

\* get_function: the select; update_function and delete_function go on
\* from here (None / False when the row is missing)
DbQuery(c) ==
    /\ store.calls[c].pc = "db_query"
    /\ store' =
         IF store.calls[c].op \in {"update", "delete"}
         THEN IF store.db
              THEN [store EXCEPT !.calls[c].pc = "commit"]
              ELSE Ended(store, c, IF store.calls[c].op = "update"
                                   THEN "None" ELSE "False")
         ELSE IF store.db
              THEN [store EXCEPT !.calls[c].pc = "cache_set"]
              ELSE AfterGet(store, c, FALSE)
    /\ UNCHANGED storeFrame

\* get_function: `await cache.set(...)` of the row that was read
CacheSet(c) ==
    /\ store.calls[c].pc = "cache_set"
    /\ store' = AfterGet([store EXCEPT !.cache = TRUE], c, TRUE)
    /\ UNCHANGED storeFrame

\* create_function: add + commit (a second row with the key is rejected);
\* update_function: commit of the changed fields; delete_function: delete +
\* commit (a row already gone fails the flush)
Commit(c) ==
    /\ store.calls[c].pc = "commit"
    /\ store' =
         IF store.calls[c].op = "create"
         THEN IF store.db
              THEN Ended(store, c, "IntegrityError")
              ELSE NowLive([store EXCEPT !.db = TRUE,
                                         !.calls[c].pc = "invalidate"])
         ELSE IF ~store.db
              THEN Ended(store, c, "StaleDataError")
              ELSE IF store.calls[c].op = "update"
              THEN [store EXCEPT !.calls[c].pc = "invalidate"]
              ELSE NowAbsent([store EXCEPT !.db = FALSE,
                                           !.calls[c].pc = "invalidate"])
    /\ UNCHANGED storeFrame

\* what a mutation that went through returns
Returned(op) ==
    CASE op = "create" -> "created"
      [] op = "update" -> "updated"
      [] op = "delete" -> "True"

\* delete_function with the cache invalidation left out
InvalidateForgottenOnDelete(c) ==
    /\ store.calls[c].pc = "invalidate"
    /\ store' = IF store.calls[c].op # "delete"
                THEN Ended([store EXCEPT !.cache = FALSE,
                                         !.logged = @ + 1], c,
                           Returned(store.calls[c].op))
                ELSE Ended([store EXCEPT !.logged = @ + 1], c, "True")
    /\ UNCHANGED storeFrame

\* create_function / update_function / delete_function after the commit:
\* `await cache.delete(...)`, the SyncEvent of the mutation is logged, return
Invalidate(c) ==
    /\ store.calls[c].pc = "invalidate"
    /\ store' = Ended([store EXCEPT !.cache = FALSE, !.logged = @ + 1], c,
                      Returned(store.calls[c].op))
    /\ UNCHANGED storeFrame

----------------------------------------------------------------------------
(* UserProfileManager.get_or_create_profile over the user_profiles table and
   StubUserProfileManager.get_or_create_profile over its dict, one user_id *)

NoProfileCall == [pc |-> "idle", result |-> "none", late |-> FALSE]

\* keyed: the table, which is created outside this code, has a unique key on
\* user_id; rows: the rows of the user; stub: the objects the stub has made
NoProfiles(keyed) ==
    [ keyed |-> keyed,
      rows  |-> 0,
      stub  |-> 0,
      calls |-> [c \in Clients |-> NoProfileCall],
      made  |-> 0 ]         \* calls begun so far

profileFrame == <<agentVars, streamVars, planVars, syncVars, exec, synth, store, sel, seq, shared>>

\* a request calls get_or_create_profile(user_id)
GetOrCreateProfile(c) ==
    /\ profiles.calls[c].pc \in {"idle", "done"}
    /\ profiles.made < MaxCalls
    /\ profiles' = [profiles EXCEPT
                      !.made = @ + 1,
                      !.calls[c] = [pc |-> "get_profile", result |-> "none",
                                    late |-> profiles.rows > 0]]
    /\ UNCHANGED profileFrame

\* get_profile: the SELECT; a row found is returned
GetProfile(c) ==
    /\ profiles.calls[c].pc = "get_profile"
    /\ profiles' = IF profiles.rows > 0
                   THEN [profiles EXCEPT !.calls[c].pc = "done",
                                         !.calls[c].result = "profile"]
                   ELSE [profiles EXCEPT !.calls[c].pc = "create_profile"]
    /\ UNCHANGED profileFrame

\* create_profile: the INSERT (rejected by a unique key when a row is there)
CreateProfile(c) ==
    /\ profiles.calls[c].pc = "create_profile"
    /\ profiles' =
         IF profiles.keyed /\ profiles.rows > 0
         THEN [profiles EXCEPT !.calls[c].pc = "done",
                               !.calls[c].result = "UniqueViolationError"]
         ELSE [profiles EXCEPT !.rows = @ + 1,
                               !.calls[c].pc = "done",
                               !.calls[c].result = "profile"]
    /\ UNCHANGED profileFrame

\* StubUserProfileManager.get_or_create_profile: no await inside, one step
StubGetOrCreate ==
    /\ profiles.made < MaxCalls
    /\ profiles' = [profiles EXCEPT
                      !.made = @ + 1,
                      !.stub = IF @ = 0 THEN 1 ELSE @]
    /\ UNCHANGED profileFrame

----------------------------------------------------------------------------
(* HybridFunctionSelector.select_functions: rule tier, RAG tier, LLM tier.
   Scores and confidences are in hundredths. *)

Catalogue == 1..NumFunctions        \* names of the indexed functions
UnknownName == 0                    \* a name the LLM made up

\* _match_patterns: a score between 0 and 1
RuleScores == {0, 50, RuleThreshold, 100}

\* similarity_score of one retrieved function
SimScores == {0, 80}

\* what one rag.retrieve call gives: the retrieved functions with their
\* similarity scores, or an exception
Retrievals ==
    UNION {[names -> SimScores] : names \in SUBSET Catalogue}

RECURSIVE WeightedSum(_, _, _)
\* sum of score * weight over the results from rank i on, in name order
WeightedSum(r, i, rank) ==
    IF i > NumFunctions THEN <<0, 0>>
    ELSE IF i \in DOMAIN r
    THEN LET w == RankWeights[rank]
             rest == WeightedSum(r, i + 1, rank + 1)
         IN <<r[i] * w + rest[1], w + rest[2]>>
    ELSE WeightedSum(r, i + 1, rank)

\* _calculate_rag_confidence: average of the scores weighted by rank
calculate_rag_confidence(r) ==
    IF DOMAIN r = {} THEN 0
    ELSE LET ws == WeightedSum(r, 1, 1) IN ws[1] \div ws[2]

NoSel == [pc |-> "idle", rule_score |-> 0, retrieved |-> << >>, all |-> {},
          functions |-> {}, method |-> "none", confidence |-> 0,
          raised |-> FALSE]

selFrame == <<agentVars, streamVars, planVars, syncVars, exec, synth, store,
              profiles, seq, shared>>

\* select_functions returns (functions, method, confidence)
SelReturn(functions, method, confidence) ==
    [sel EXCEPT !.pc = "done", !.functions = functions, !.method = method,
                !.confidence = confidence]

\* tier 1: with a rule score at or above the threshold rag.retrieve is
\* called outside any try; a non-empty result is returned with the rule
\* score as confidence
SelRuleTier ==
    /\ sel.pc = "rule"
    /\ \E score \in RuleScores, raises \in BOOLEAN, r \in Retrievals :
         sel' = IF score < RuleThreshold
                THEN [sel EXCEPT !.pc = "rag", !.rule_score = score]
                ELSE IF raises
                THEN [sel EXCEPT !.pc = "done", !.rule_score = score,
                                 !.raised = TRUE]
                ELSE [(IF DOMAIN r # {}
                       THEN SelReturn(DOMAIN r, "rule_based", score)
                       ELSE [sel EXCEPT !.pc = "rag"])
                      EXCEPT !.rule_score = score, !.retrieved = r]
    /\ UNCHANGED selFrame

\* tier 2: rag.retrieve under a 10 s timeout; timeout and exceptions are
\* logged; a non-empty result is returned with the RAG confidence
SelRagTier ==
    /\ sel.pc = "rag"
    /\ \E raises \in BOOLEAN, r \in Retrievals :
         sel' = IF raises THEN [sel EXCEPT !.pc = "llm_retrieve"]
                ELSE [(IF DOMAIN r # {}
                       THEN SelReturn(DOMAIN r, "rag_semantic",
                                      calculate_rag_confidence(r))
                       ELSE [sel EXCEPT !.pc = "llm_retrieve"])
                      EXCEPT !.retrieved = r]
    /\ UNCHANGED selFrame

\* tier 3, the broader rag.retrieve: nothing retrieved or an exception ends
\* in the fallback `return [], RAG_SEMANTIC, 0.0`
SelLlmRetrieve ==
    /\ sel.pc = "llm_retrieve"
    /\ \E raises \in BOOLEAN, r \in Retrievals :
         sel' = IF raises THEN SelReturn({}, "rag_semantic", 0)
                ELSE [(IF DOMAIN r # {}
                       THEN [sel EXCEPT !.pc = "llm", !.all = DOMAIN r]
                       ELSE SelReturn({}, "rag_semantic", 0))
                      EXCEPT !.retrieved = r]
    /\ UNCHANGED selFrame

\* _llm_function_selection: the names of the reply that are names of
\* retrieved functions; a reply that cannot be parsed (or a failed LLM call)
\* falls back to the first retrieved functions
llm_function_selection(all, parsed, names) ==
    IF parsed THEN names \cap all ELSE all

\* tier 3: whatever _llm_function_selection returned is returned with
\* confidence 0.7
SelLlmTier ==
    /\ sel.pc = "llm"
    /\ \E parsed \in BOOLEAN, names \in SUBSET (Catalogue \cup {UnknownName}) :
         sel' = SelReturn(llm_function_selection(sel.all, parsed, names),
                          "llm_reasoning", LlmConfidence)
    /\ UNCHANGED selFrame

----------------------------------------------------------------------------
(* APIExecutor.execute_sequential with _substitute_parameters.  Every call
   carries one parameter: a literal, or a reference {{function_id.key}}. *)

FnIds == 1..NumFunctions
Keys == {"a", "b"}                  \* keys a returned `data` dict can hold

\* parameter values as written in the request
Literal == [kind |-> "literal"]
Refs == [kind : {"ref"}, call_id : FnIds, key : Keys]

SeqCalls ==
    [function_id : FnIds, parameter : {Literal} \cup Refs, stop_on_error : BOOLEAN]

RECURSIVE SeqsOf(_, _)
\* the sequences over S of length 1..n
SeqsOf(S, n) ==
    IF n = 0 THEN {}
    ELSE {<<x>> : x \in S} \cup
         {Append(q, x) : q \in SeqsOf(S, n - 1), x \in S}

\* the context dict: function_id -> keys of the data it returned; Absent
\* for a function that has not been executed
Absent == [present |-> FALSE, keys |-> {}]

\* _substitute_parameters for one value: a literal stays; a reference is
\* looked up with `result = result.get(p, {})` along its path, so a missing
\* call_id or key gives the empty dict
substitute_parameters(value, context) ==
    IF value.kind = "literal" THEN "literal"
    ELSE IF context[value.call_id].present
            /\ value.key \in context[value.call_id].keys
    THEN "resolved"
    ELSE "empty_dict"

NoSeq == [pc |-> "idle", calls |-> << >>, next |-> 1,
          context |-> [f \in FnIds |-> Absent],
          parameters |-> "none", sent |-> << >>, results |-> << >>]

seqFrame == <<agentVars, streamVars, planVars, syncVars, exec, synth, store,
              profiles, sel, shared>>

\* the loop head and the substitution for the next call; after the last
\* call, or after a failed call with stop_on_error, the results are returned
SeqSubstitute ==
    /\ seq.pc = "substitute"
    /\ seq' = IF seq.next > Len(seq.calls)
              THEN [seq EXCEPT !.pc = "returned"]
              ELSE [seq EXCEPT
                      !.pc = "execute",
                      !.parameters =
                          substitute_parameters(seq.calls[seq.next].parameter,
                                                seq.context)]
    /\ UNCHANGED seqFrame

\* execute_function with the substituted parameters: a success with some
\* data, a failure dict (no data), or ValueError for an unknown function,
\* which leaves execute_sequential
SeqExecute ==
    /\ seq.pc = "execute"
    /\ \E outcome \in {"success", "failure", "ValueError"}, keys \in SUBSET Keys :
         LET call == seq.calls[seq.next]
             data == IF outcome = "success" THEN keys ELSE {}
         IN /\ outcome # "success" => keys = {}
            /\ seq' =
                 IF outcome = "ValueError"
                 THEN [seq EXCEPT !.pc = "raised"]
                 ELSE [seq EXCEPT
                         !.sent = Append(@, [function_id |-> call.function_id,
                                             parameters |-> seq.parameters]),
                         !.context[call.function_id] =
                             [present |-> TRUE, keys |-> data],
                         !.results = Append(@, outcome = "success"),
                         !.next = @ + 1,
                         !.pc = IF outcome = "failure" /\ call.stop_on_error
                                THEN "returned" ELSE "substitute"]
    /\ UNCHANGED seqFrame

----------------------------------------------------------------------------
(* Specifications *)

\* ---- the shared agent: routes_v2.get_agent and the per-request binding ----

Requests == 1..NumRequests

\* no FunctionRegistryService bound: get_agent builds the agent with None
NoService == 0

\* one request: where its handler is, the state of the database session
\* opened for it, and history: for each _enhanced_observe of its run the
\* request whose FunctionRegistryService was passed to execute_with_retry
\* and whether that service's session was still open
NoRequest == [pc |-> "idle", session |-> "none", used |-> << >>]

\* _agent is one object for the process; registry_service is its attribute
NoShared == [registry_service |-> NoService,
             requests |-> [r \in Requests |-> NoRequest]]

bindFrame == <<agentVars, streamVars, planVars, syncVars, exec, synth, store,
               profiles, sel, seq>>

\* async with get_db_session() as db:
\*     agent.registry_service = FunctionRegistryService(db)
\* and agent.run is started (stream_query, process_query, the batch route)
BindRegistry(r) ==
    /\ shared.requests[r].pc = "idle"
    /\ shared' = [shared EXCEPT !.registry_service = r,
                                !.requests[r].pc = "running",
                                !.requests[r].session = "open"]
    /\ UNCHANGED bindFrame

\* _enhanced_observe of the run of request r: the service is read from the
\* agent's attribute at the time of the call
EnhancedObserve(r) ==
    /\ shared.requests[r].pc = "running"
    /\ Len(shared.requests[r].used) < MaxObserves
    /\ LET svc == shared.registry_service
       IN shared' = [shared EXCEPT !.requests[r].used =
              Append(@, [service |-> svc,
                         session |-> shared.requests[svc].session])]
    /\ UNCHANGED bindFrame

\* agent.run returns and the handler leaves the async with block: the
\* session of this request is closed; the agent's attribute is left as it is
RunReturns(r) ==
    /\ shared.requests[r].pc = "running"
    /\ shared' = [shared EXCEPT !.requests[r].pc = "done",
                                !.requests[r].session = "closed"]
    /\ UNCHANGED bindFrame


IdleAgent == 
    /\ pc = "none"
    /\ state = create_initial_state(1)
    /\ hasCallback = FALSE
    /\ cbReturns = TRUE
    /\ failure = "none"
    /\ event_queue = << >>
    /\ produced = << >>

IdleStream ==
    /\ yielded = << >>
    /\ gen = "none"

IdleExec == exec = NoExec

IdleSynth == synth = NoSynth

IdleStore == store = NoStore

IdleProfiles == profiles = NoProfiles(FALSE)

IdleSel == sel = NoSel

IdleSeq == seq = NoSeq

IdleShared == shared = NoShared

IdlePlan ==
    /\ plan = NoPlan
    /\ completed = {}
    /\ batch = NoBatch

IdleSync ==
    /\ registry = [id \in Ids |-> NoRow]
    /\ events = << >>
    /\ index = [k \in Ids \X Contents |-> 0]
    /\ workers = [w \in Workers |-> IdleWorker]
    /\ reqs = {}
    /\ committed = [k \in Ids \X Ops |-> 0]
    /\ applied = {}
    /\ last = NoDispatch

\* ReactAgentV2.run called on an agent built with max_iterations >= 1
InitAgent ==
    /\ pc = "start"
    /\ state \in {create_initial_state(m) : m \in 1..MaxMaxSteps}
    /\ hasCallback \in BOOLEAN
    /\ cbReturns = TRUE
    /\ failure = "none"
    /\ event_queue = << >>
    /\ produced = << >>
    /\ IdleStream /\ IdleExec /\ IdleSynth
    /\ IdlePlan
    /\ IdleSync
    /\ IdleStore
    /\ IdleProfiles
    /\ IdleSel
    /\ IdleSeq
    /\ IdleShared

NextAgent ==
    \/ RunStart
    \/ SelectFunctions
    \/ LoopHead
    \/ Think
    \/ ThoughtStreamed
    \/ Act
    \/ ActionStreamed
    \/ Observe
    \/ ObservationStreamed
    \/ Reflect
    \/ FinalAnswer
    \/ Finish
    \/ Raise

SpecAgent == InitAgent /\ [][NextAgent]_vars

\* every LLM call, execution and callback returns, times out or raises
SpecAgentFair == SpecAgent /\ WF_vars(NextAgent)

\* EnhancedReactAgentV2._execute_plan called with a parsed plan
InitPlan ==
    /\ pc = "plan_loop"
    /\ state \in {create_initial_state(m) : m \in 1..MaxMaxSteps}
    /\ hasCallback = FALSE
    /\ cbReturns = TRUE
    /\ failure = "none"
    /\ event_queue = << >>
    /\ produced = << >>
    /\ IdleStream /\ IdleExec /\ IdleSynth
    /\ plan \in Plans
    /\ completed = {}
    /\ batch = NoBatch
    /\ IdleSync
    /\ IdleStore
    /\ IdleProfiles
    /\ IdleSel
    /\ IdleSeq
    /\ IdleShared

NextPlan ==
    \/ PlanLoop
    \/ PlanStepStart
    \/ PlanStepObserve
    \/ PlanBatchDone

SpecPlan == InitPlan /\ [][NextPlan]_vars

\* empty registry, empty sync_events table, empty collection, no worker running
InitSync ==
    /\ IdleAgent
    /\ IdleStream /\ IdleExec /\ IdleSynth
    /\ IdlePlan
    /\ IdleSync
    /\ IdleStore
    /\ IdleProfiles
    /\ IdleSel
    /\ IdleSeq
    /\ IdleShared

NextSync ==
    \/ CreateFunction
    \/ UpdateFunction
    \/ DeleteFunction
    \/ LogEvent
    \/ LogEventFails
    \/ RouteTrigger
    \/ WorkerSelect
    \/ WorkerClaim
    \/ WorkerDispatch

SpecSync == InitSync /\ [][NextSync]_vars

\* the sync_events table after create_function(1) and n - 1 calls of
\* update_function(1) have been committed and logged; no task is running
LoggedEvents(n) ==
    [i \in 1..n |-> [entity_id    |-> 1,
                     operation    |-> IF i = 1 THEN "INSERT" ELSE "UPDATE",
                     new_data     |-> 1,
                     sync_status  |-> "pending",
                     retry_count  |-> 0]]

InitWorker ==
    /\ IdleAgent
    /\ IdleStream /\ IdleExec /\ IdleSynth
    /\ IdlePlan
    /\ IdleStore
    /\ IdleProfiles
    /\ IdleSel
    /\ IdleSeq
    /\ IdleShared
    /\ registry = [id \in Ids |-> IF id = 1 THEN 1 ELSE NoRow]
    /\ events \in {LoggedEvents(n) : n \in 1..MaxLogged}
    /\ index = [k \in Ids \X Contents |-> 0]
    /\ workers = [w \in Workers |-> IdleWorker]
    /\ reqs = {}
    /\ committed = [k \in Ids \X Ops |->
                      IF k[1] = 1 /\ k[2] = "INSERT" THEN 1
                      ELSE IF k[1] = 1 /\ k[2] = "UPDATE"
                      THEN Len(events) - 1 ELSE 0]
    /\ applied = {}
    /\ last = NoDispatch

NextWorker ==
    \/ RouteTrigger
    \/ WorkerSelect
    \/ WorkerClaim
    \/ WorkerDispatch
    \/ WorkerStops

\* POST /sync/process keeps arriving and every started task keeps being
\* scheduled; a task is not obliged to stop
SpecWorkerFair ==
    /\ InitWorker /\ [][NextWorker]_vars
    /\ WF_vars(RouteTrigger)
    /\ WF_vars(WorkerSelect)
    /\ WF_vars(WorkerClaim)
    /\ WF_vars(WorkerDispatch)


\* the sync worker over logged events, with the full re-sync endpoint
NextResync ==
    \/ RouteTrigger
    \/ WorkerSelect
    \/ WorkerClaim
    \/ WorkerDispatch
    \/ WorkerStops
    \/ SyncToMilvus

SpecResync == InitWorker /\ [][NextResync]_vars

\* one select_functions call
InitSelect ==
    /\ IdleAgent
    /\ IdleStream /\ IdleExec /\ IdleSynth
    /\ IdlePlan
    /\ IdleSync
    /\ IdleStore
    /\ IdleProfiles
    /\ IdleSeq
    /\ IdleShared
    /\ sel = [NoSel EXCEPT !.pc = "rule"]

NextSelect ==
    \/ SelRuleTier
    \/ SelRagTier
    \/ SelLlmRetrieve
    \/ SelLlmTier

SpecSelect == InitSelect /\ [][NextSelect]_vars

\* execute_sequential called with 1..MaxSeqCalls calls
InitSequential ==
    /\ IdleAgent
    /\ IdleStream /\ IdleExec /\ IdleSynth
    /\ IdlePlan
    /\ IdleSync
    /\ IdleStore
    /\ IdleProfiles
    /\ IdleSel
    /\ IdleShared
    /\ seq \in {[NoSeq EXCEPT !.pc = "substitute", !.calls = q] :
                   q \in SeqsOf(SeqCalls, MaxSeqCalls)}

NextSequential ==
    \/ SeqSubstitute
    \/ SeqExecute

SpecSequential == InitSequential /\ [][NextSequential]_vars

\* NumRequests requests arrive at a process whose agent is not yet built
InitShared ==
    /\ IdleAgent
    /\ IdleStream /\ IdleExec /\ IdleSynth
    /\ IdlePlan
    /\ IdleSync
    /\ IdleStore
    /\ IdleProfiles
    /\ IdleSel
    /\ IdleSeq
    /\ shared = NoShared

NextShared ==
    \/ \E r \in Requests : BindRegistry(r)
    \/ \E r \in Requests : EnhancedObserve(r)
    \/ \E r \in Requests : RunReturns(r)

SpecShared == InitShared /\ [][NextShared]_vars

\* run called with a stream_callback that may never come back
InitCallback ==
    /\ pc = "start"
    /\ state \in {create_initial_state(m) : m \in 1..MaxMaxSteps}
    /\ hasCallback = TRUE
    /\ cbReturns \in BOOLEAN
    /\ failure = "none"
    /\ event_queue = << >>
    /\ produced = << >>
    /\ IdleStream /\ IdleExec /\ IdleSynth
    /\ IdlePlan
    /\ IdleSync
    /\ IdleStore
    /\ IdleProfiles
    /\ IdleSel
    /\ IdleSeq
    /\ IdleShared

\* every LLM call and execution returns, times out or raises; the callback
\* is the caller's
SpecCallbackFair == InitCallback /\ [][NextAgent]_vars /\ WF_vars(NextAgent)

\* POST /query/stream: the generator has been created, nothing has run yet
InitStream ==
    /\ pc = "none"
    /\ state \in {create_initial_state(m) : m \in 1..MaxMaxSteps}
    /\ hasCallback = TRUE
    /\ cbReturns = TRUE
    /\ failure = "none"
    /\ event_queue = << >>
    /\ produced = << >>
    /\ yielded = << >>
    /\ gen = "begin"
    /\ IdleExec /\ IdleSynth
    /\ IdlePlan
    /\ IdleSync
    /\ IdleStore
    /\ IdleProfiles
    /\ IdleSel
    /\ IdleSeq
    /\ IdleShared

\* the steps of the run_agent task
NextTask ==
    \/ RunStart
    \/ SelectFunctions
    \/ LoopHead
    \/ Think
    \/ ThoughtStreamed
    \/ Act
    \/ ActionStreamed
    \/ Observe
    \/ ObservationStreamed
    \/ Reflect
    \/ FinalAnswer
    \/ Finish
    \/ RaiseInCall
    \/ RunAgentComplete
    \/ RunAgentFinally

NextStream ==
    \/ NextTask
    \/ GenYieldStart
    \/ GenCreateTask
    \/ GenNext

SpecStream == InitStream /\ [][NextStream]_vars

\* the response is started and the task scheduled; after that the client
\* need not read any further event
SpecStreamFair ==
    SpecStream /\ WF_vars(NextTask) /\ WF_vars(GenYieldStart \/ GenCreateTask)

\* execute_with_retry called by _enhanced_observe
InitExec ==
    /\ IdleAgent
    /\ IdleStream /\ IdleSynth
    /\ IdlePlan
    /\ IdleSync
    /\ IdleStore
    /\ IdleProfiles
    /\ IdleSel
    /\ IdleSeq
    /\ IdleShared
    /\ exec = [NoExec EXCEPT !.pc = "call"]

NextExec ==
    \/ CallExecute
    \/ HttpAttempt
    \/ UpdateUsage
    \/ HandleOutcome

SpecExec == InitExec /\ [][NextExec]_vars

\* a sequence of executor calls for one function, whose cache_ttl is any of
\* TtlValues, starting with nothing cached
InitExecCache ==
    /\ IdleAgent
    /\ IdleStream /\ IdleSynth
    /\ IdlePlan
    /\ IdleSync
    /\ IdleStore
    /\ IdleProfiles
    /\ IdleSel
    /\ IdleSeq
    /\ IdleShared
    /\ exec \in {[NoExec EXCEPT !.pc = "call", !.ttl = t, !.use_cache = u] :
                    t \in TtlValues, u \in BOOLEAN}

NextExecCache ==
    \/ CallExecute
    \/ HttpAttempt
    \/ UpdateUsage
    \/ HandleOutcome
    \/ NextRequest
    \/ Expire

SpecExecCache == InitExecCache /\ [][NextExecCache]_vars

\* synthesize called for a function schema, with or without user_id in context
InitSynth ==
    /\ IdleAgent
    /\ IdleStream /\ IdleExec
    /\ IdlePlan
    /\ IdleSync
    /\ IdleStore
    /\ IdleProfiles
    /\ IdleSel
    /\ IdleSeq
    /\ IdleShared
    /\ synth \in { [pc |-> "template", function_schema |-> s, ctx_user_id |-> u,
                    success |-> FALSE, params |-> << >>, strategy |-> "none",
                    tried |-> << >>] :   \* history: what each strategy gave
                   s \in FunctionSchemas, u \in BOOLEAN }

NextSynth ==
    \/ TryTemplate
    \/ TryExtraction
    \/ TryContextReuse
    \/ TryLLM

SpecSynth == InitSynth /\ [][NextSynth]_vars

\* empty registry table, empty cache, no request inside the registry
InitStore ==
    /\ IdleAgent
    /\ IdleStream /\ IdleExec /\ IdleSynth
    /\ IdlePlan
    /\ IdleSync
    /\ IdleStore
    /\ IdleProfiles
    /\ IdleSel
    /\ IdleSeq
    /\ IdleShared

NextStore ==
    \/ \E c \in Clients, op \in StoreOps : Call(c, op)
    \/ \E c \in Clients : CacheGet(c)
    \/ \E c \in Clients : DbQuery(c)
    \/ \E c \in Clients : CacheSet(c)
    \/ \E c \in Clients : Commit(c)
    \/ \E c \in Clients : Invalidate(c)

\* requests overlap freely
SpecStore == InitStore /\ [][NextStore]_vars

\* a call starts only when no other call is inside the registry
CallAlone(c, op) ==
    /\ \A d \in Clients : ~InFlight(d)
    /\ Call(c, op)

NextStoreSeq ==
    \/ \E c \in Clients, op \in StoreOps : CallAlone(c, op)
    \/ \E c \in Clients : CacheGet(c)
    \/ \E c \in Clients : DbQuery(c)
    \/ \E c \in Clients : CacheSet(c)
    \/ \E c \in Clients : Commit(c)
    \/ \E c \in Clients : Invalidate(c)

\* one call after the other
SpecStoreSeq == InitStore /\ [][NextStoreSeq]_vars

\* no profile yet; the table with or without a unique key on user_id
InitProfiles ==
    /\ IdleAgent
    /\ IdleStream /\ IdleExec /\ IdleSynth
    /\ IdlePlan
    /\ IdleSync
    /\ IdleStore
    /\ IdleSel
    /\ IdleSeq
    /\ IdleShared
    /\ profiles \in {NoProfiles(k) : k \in BOOLEAN}

NextProfiles ==
    \/ \E c \in Clients : GetOrCreateProfile(c)
    \/ \E c \in Clients : GetProfile(c)
    \/ \E c \in Clients : CreateProfile(c)
    \/ StubGetOrCreate

SpecProfiles == InitProfiles /\ [][NextProfiles]_vars

----------------------------------------------------------------------------
(* Properties of the ReAct loop *)

\* C1: in every state run returns and at every iteration boundary,
\* |actions| <= |observations| <= |thoughts|, also when a step raised.
C1_ActionsObserved ==
    pc \in {"loop", "final", "returned"} =>
        /\ Len(state.actions) <= Len(state.observations)
        /\ Len(state.observations) <= Len(state.thoughts)

\* C2: whichever driver advances it, current_step stays within
\* 0..max_steps and changes only by +1.
C2_StepWithinMaxSteps ==
    [][ /\ state'.current_step >= 0
        /\ state'.current_step <= state'.max_steps
        /\ state'.current_step \in {state.current_step, state.current_step + 1}
      ]_vars

\* C3: when every call returns, times out or raises, run returns, and it has
\* run at most max_steps iterations by then, whatever the LLM replied.
C3_RunTerminates ==
    <>(pc = "returned" /\ Len(state.thoughts) <= state.max_steps)

\* C3 witness: run has returned after max_steps > 1 iterations in each of
\* which the thought asked for an action and an action was taken.
C3_Witness ==
    /\ pc = "returned"
    /\ state.status \in {"completed", "incomplete"}
    /\ state.max_steps > 1
    /\ Len(state.thoughts) = state.max_steps
    /\ Len(state.actions) = state.max_steps
    /\ \A i \in 1..Len(state.reflections) :
         i < state.max_steps => state.reflections[i].should_continue

----------------------------------------------------------------------------
(* Properties of the sync pipeline *)

EventCount(id, op) ==
    Cardinality({i \in 1..Len(events) :
                   events[i].entity_id = id /\ events[i].operation = op})

\* C4: every committed registry mutation has its SyncEvent, in every
\* reachable state.
C4_EventWithEveryMutation ==
    \A k \in Ids \X Ops : committed[k] <= EventCount(k[1], k[2])

\* every event synced or failed at the retry cap, nothing in flight
Drained ==
    /\ reqs = {}
    /\ \A w \in Workers : workers[w].pc = "idle"
    /\ \A i \in 1..Len(events) :
         \/ events[i].sync_status = "synced"
         \/ events[i].sync_status = "failed" /\ events[i].retry_count >= MaxRetries

\* every committed mutation has had its SyncEvent written
AllLogged ==
    \A k \in Ids \X Ops : committed[k] = EventCount(k[1], k[2])

\* C5: once the queue is drained, the vectors of every registry row carry
\* the row's current content and a deleted id has no vector. Stated for the
\* states in which no SyncEvent was lost, so that it does not rest on C4.
C5_DrainedIndexMatchesRegistry ==
    (Drained /\ AllLogged) =>
        \A id \in Ids :
            /\ registry[id] # NoRow => index[<<id, registry[id]>>] > 0
            /\ \A c \in Contents : c # registry[id] => index[<<id, c>>] = 0

\* C6: no event is dispatched once a later event of the same entity has
\* been applied.
C6_AppliedInEventOrder ==
    [][ \A w \in Workers :
          (workers[w].pc = "dispatch" /\ workers'[w].pc # "dispatch") =>
              \A e \in applied :
                  events[e].entity_id = events[workers[w].ev].entity_id
                      => e <= workers[w].ev
      ]_vars

\* the event ids of one entity, in event_id order
EventsOf(id) == SelectSeq([i \in 1..Len(events) |-> i],
                          LAMBDA i : events[i].entity_id = id)

\* C7: for INSERT, UPDATE, DELETE on one id: once the UPDATE is applied the
\* index holds no pre-UPDATE content of the id, and once the DELETE is synced
\* it holds no vector of the id.
C7_InsertUpdateDelete ==
    \A id \in Ids :
        LET es == EventsOf(id)
        IN ( /\ Len(es) \in {2, 3}
             /\ events[es[1]].operation = "INSERT"
             /\ events[es[2]].operation = "UPDATE"
             /\ Len(es) = 3 => events[es[3]].operation = "DELETE" )
           =>
           /\ ( /\ es[2] \in applied
                /\ events[es[1]].new_data # events[es[2]].new_data )
              => index[<<id, events[es[1]].new_data>>] = 0
           /\ (Len(es) = 3 /\ events[es[3]].sync_status = "synced")
              => \A c \in Contents : index[<<id, c>>] = 0

\* C8: right after an event has been processed, processing it once more
\* leaves the index as it is.
C8_ReplayChangesNothing ==
    last.ok => dispatch(index, events[last.ev], "ok") = index

\* C9: sync_status moves only pending -> processing -> synced | failed and
\* failed -> processing below the retry cap; a synced event keeps its status
\* and retry_count.
C9_StatusMovesForward ==
    [][ \A i \in 1..Len(events) :
          LET a == events[i]
              b == events'[i]
          IN /\ a.sync_status = "synced" => b = a
             /\ a.sync_status # b.sync_status =>
                  \/ a.sync_status = "pending" /\ b.sync_status = "processing"
                  \/ /\ a.sync_status = "processing"
                     /\ b.sync_status \in {"synced", "failed"}
                  \/ /\ a.sync_status = "failed"
                     /\ b.sync_status = "processing"
                     /\ a.retry_count < MaxRetries
      ]_vars

\* C10: an event is claimed by at most one worker at a time: no two workers
\* are dispatching the same event.
C10_SingleClaim ==
    \A v, w \in Workers :
        (v # w /\ workers[v].pc = "dispatch" /\ workers[w].pc = "dispatch")
            => workers[v].ev # workers[w].ev

----------------------------------------------------------------------------
(* Properties of parameter synthesis *)

\* the FunctionSchema rules: required present, declared types, nothing else
SchemaSatisfied(params, schema) ==
    /\ schema.required \subseteq DOMAIN params
    /\ DOMAIN params \subseteq DOMAIN schema.properties
    /\ \A p \in DOMAIN params : params[p] = schema.properties[p]

\* C11: the parameters synthesize hands back for execution satisfy the
\* function's parameter schema, whichever strategy produced them.
C11_ParametersSatisfySchema ==
    (synth.pc = "done" /\ synth.success) =>
        SchemaSatisfied(synth.params, synth.function_schema)

----------------------------------------------------------------------------
(* Properties of function execution *)

\* the HTTP attempts so far: k - 1 timeouts or network errors, then a success
RetriedThenOk(k) ==
    /\ Len(exec.http) = k
    /\ \A i \in 1..(k - 1) : exec.http[i] \in {"timeout", "network"}
    /\ exec.http[k] = "ok"

\* C12: when the first k-1 attempts time out or hit a network error and
\* attempt k <= 3 succeeds, the controller gets success = true with
\* attempts = k, and usage was recorded exactly once, as a success.  Stated
\* for executions in which the registry itself did not fail.
C12_RetriedSuccessReported ==
    \A k \in 1..HttpMaxAttempts :
        (exec.pc = "done" /\ exec.db_faults = 0 /\ RetriedThenOk(k)) =>
            /\ exec.result.success
            /\ exec.result.attempts = k
            /\ exec.usage = <<TRUE>>

\* C13: when the first attempt is answered HTTP >= 400, the controller gets
\* success = false with attempts = 1, no further attempt was made, and the
\* observation built from the result has success = false.  Stated for
\* executions in which the registry itself did not fail.
C13_HttpErrorReported ==
    (exec.pc = "done" /\ exec.db_faults = 0
       /\ exec.http # << >> /\ exec.http[1] = "status") =>
        /\ ~exec.result.success
        /\ exec.result.attempts = 1
        /\ Len(exec.http) = 1
        /\ ~enhanced_observe(exec.result).success

\* C14: an HTTP attempt is made only while fewer than 3 were made in this
\* execution, and a further one only right after a timeout or network error.
C14_AttemptsBounded ==
    [][ Len(exec'.http) > Len(exec.http) =>
          /\ Len(exec.http) < 3
          /\ exec.http # << >> =>
               exec.http[Len(exec.http)] \in {"timeout", "network"}
      ]_vars

----------------------------------------------------------------------------
(* Properties of streaming *)

\* which event may directly follow which in one run
MayFollow(a, b) ==
    \/ a = "start"        /\ b \in {"thought", "final_answer", "complete"}
    \/ a = "thought"      /\ b \in {"thought", "action", "final_answer", "complete"}
    \/ a = "action"       /\ b = "observation"
    \/ a = "observation"  /\ b \in {"thought", "final_answer", "complete"}
    \/ a = "final_answer" /\ b = "complete"

\* start first, complete last, each event a legal successor of the one before
InProductionOrder(q) ==
    /\ q # << >>
    /\ q[1].type = "start"
    /\ q[Len(q)].type = "complete"
    /\ \A i \in 1..(Len(q) - 1) : MayFollow(q[i].type, q[i + 1].type)

\* the thought / action / observation events are numbered 1, 2, 3, ...
StepNumbersGrowByOne(q) ==
    \A i \in 1..Len(q) :
        q[i].type \in StepEvents =>
            q[i].step_number =
                Cardinality({j \in 1..i : q[j].type \in StepEvents})

\* what the generator has relayed from the queue: everything it yielded
\* after its own opening start event
Relayed == IF yielded = << >> THEN << >> ELSE Tail(yielded)

C16_RunReturnsFinalized ==
    <>(pc = "returned" /\ state.status \in {"completed", "incomplete", "failed"})

----------------------------------------------------------------------------
(* Properties of the run status *)

\* the moves of the status field the lifecycle allows
StatusMoves ==
    { <<"thinking", "acting">>, <<"thinking", "reflecting">>,
      <<"acting", "observing">>, <<"observing", "reflecting">>,
      <<"reflecting", "thinking">>, <<"reflecting", "completed">>,
      <<"reflecting", "incomplete">> }

\* C17: status starts at thinking and changes only along thinking -> acting,
\* thinking -> reflecting, acting -> observing, observing -> reflecting,
\* reflecting -> thinking / completed / incomplete, or from anywhere to
\* failed; so completed and incomplete are entered only from reflecting.
C17_StatusFollowsLifecycle ==
    [][ state.status' # state.status =>
          \/ state.status' = "failed"
          \/ <<state.status, state.status'>> \in StatusMoves ]_vars

\* the run went into the ReAct loop (max_steps is at least 1)
EnteredLoop == state.current_step >= 1

\* C18: a run that returns after entering the loop, without having been
\* failed by an exception, has quality_score = the validator's overall score
\* and status completed if that score reaches the threshold, incomplete
\* otherwise; no returned state has a status other than completed,
\* incomplete or failed.
C18_ReturnedStatusFromQuality ==
    pc = "returned" =>
        /\ state.status \in {"completed", "incomplete", "failed"}
        /\ (EnteredLoop /\ state.status # "failed") =>
             /\ state.quality_score = validate_completion(state)
             /\ state.status =
                  IF QualityAtLeast(state.quality_score, QualityThresholdV2)
                  THEN "completed" ELSE "incomplete"

\* C18 witness: a run returned incomplete after an iteration whose call failed
C18_Witness ==
    /\ pc = "returned"
    /\ EnteredLoop
    /\ state.status = "incomplete"
    /\ Len(state.observations) >= 1
    /\ ~QualityAtLeast(state.quality_score, QualityThresholdV2)

----------------------------------------------------------------------------
(* Properties of REFLECT and of failures inside an iteration *)

\* should_continue as a function of the objective quality and the step alone
ObjectiveContinue(r, max_steps) ==
    /\ ~QualityAtLeast(r.quality_score, QualityThresholdV2)
    /\ r.step < max_steps

\* C19: every reflection has should_continue = (objective quality below the
\* threshold) and (current_step < max_steps), whatever the LLM answered to
\* "Continue"; so a run that returns incomplete has used all its steps.
C19_ContinueIsObjective ==
    /\ \A i \in 1..Len(state.reflections) :
         state.reflections[i].should_continue
             = ObjectiveContinue(state.reflections[i], state.max_steps)
    /\ (pc = "returned" /\ state.status = "incomplete") =>
         state.current_step = state.max_steps

\* the ways _enhanced_act gives no action
ActFailures == ActOutcomes \ {"action"}

\* the failures that belong to one iteration or to the final answer
IterationFailures ==
    ActFailures \cup {"think_timeout", "execution_failed",
                      "reflect_timeout", "final_timeout"}

\* C20: a step that fails inside an iteration - ACT without a usable
\* function or parameters, an execution with success = false, a THINK / ACT /
\* REFLECT / FINAL timeout - leaves the status alone and is followed by
\* REFLECT: a failed ACT goes straight to REFLECT with no action and no
\* observation appended, a timed-out THINK gives a thought that skips ACT, a
\* failed execution is recorded as an observation, a timed-out REFLECT still
\* appends its reflection and may continue the loop.  Only an exception
\* sets status = failed.
C20_IterationFailureIsNotRunFailure ==
    [][ /\ failure' \in IterationFailures =>
             /\ state'.status = state.status
             /\ state'.status # "failed"
        /\ failure' \in ActFailures =>
             /\ pc' = "reflect"
             /\ state'.actions = state.actions
             /\ state'.observations = state.observations
        /\ failure' = "think_timeout" =>
             /\ pc' = "cb_thought"
             /\ ~should_act(state')
        /\ failure' = "execution_failed" =>
             /\ pc' = "cb_observation"
             /\ Len(state'.observations) = Len(state.observations) + 1
        /\ failure' = "reflect_timeout" =>
             /\ Len(state'.reflections) = Len(state.reflections) + 1
             /\ pc' \in {"loop", "final"}
        /\ failure' = "final_timeout" => pc' = "cb_final"
        /\ (state'.status = "failed" /\ state.status # "failed") =>
             failure' = "exception"
      ]_vars

\* C20 witness: the first iteration wanted to act and got no action, was
\* reflected on, and the loop went on to a second iteration
C20_Witness ==
    /\ Len(state.thoughts) >= 2
    /\ state.thoughts[1].acts
    /\ \A i \in 1..Len(state.actions) : state.actions[i].step # 1
    /\ \A i \in 1..Len(state.observations) : state.observations[i].step # 1
    /\ Len(state.reflections) >= 1
    /\ state.status = "thinking"

----------------------------------------------------------------------------
(* Properties of the exits of run *)

\* C21: an exception that escapes a phase of run is turned into a returned
\* state: the step that handles it ends the run with status failed, error
\* set and total_execution_time_ms stamped, and leaves thoughts, actions and
\* observations as they were; every failed state carries error and the stamp.
C21_ExceptionReturnsFailedState ==
    [][ /\ failure' = "exception" =>
             /\ pc' = "returned"
             /\ state'.status = "failed"
             /\ state'.error
             /\ state'.total_execution_time_ms
             /\ state'.thoughts = state.thoughts
             /\ state'.actions = state.actions
             /\ state'.observations = state.observations
        /\ state'.status = "failed" =>
             /\ state'.error
             /\ state'.total_execution_time_ms
      ]_vars

\* C21 witness: a run that failed after a thought and an action were recorded
C21_Witness ==
    /\ pc = "returned"
    /\ failure = "exception"
    /\ state.status = "failed"
    /\ Len(state.thoughts) >= 1
    /\ Len(state.actions) >= 1

\* C22: when the selection returns no function, run returns at once:
\* status completed, quality_score 0, current_step 0, a final answer, no
\* thought, action or observation; and a returned run does nothing more,
\* so no function is executed.
C22_NoFunctionsReturnsCompleted ==
    [][ /\ (pc = "select" /\ pc' = "returned" /\ failure' # "exception") =>
             /\ state'.status = "completed"
             /\ state'.quality_score[1] = 0
             /\ state'.current_step = 0
             /\ state'.final_answer >= 0
             /\ state'.thoughts = << >>
             /\ state'.actions = << >>
             /\ state'.observations = << >>
        /\ pc = "returned" => (pc' = "returned" /\ state' = state)
      ]_vars

\* C22 witness: a run returned completed without having entered the loop
C22_Witness ==
    /\ pc = "returned"
    /\ state.status = "completed"
    /\ state.current_step = 0
    /\ state.final_answer >= 0

----------------------------------------------------------------------------
(* Properties of the registry and its cache *)

\* C23: execute_function goes on to the HTTP request only for a function
\* whose row existed at some moment of the call; for a function absent when
\* the call began and not created during it - in particular one whose
\* delete_function had completed - it raises not-found, also when other
\* get_function calls ran around the delete.
C23_ExecuteOnlyExisting ==
    \A i \in 1..Len(store.log) :
        (store.log[i].op = "execute" /\ store.log[i].result = "request")
            => store.log[i].live

\* calls i..i+n-1 of the log are the operations ops, in that order
LogHas(i, ops) ==
    /\ i + Len(ops) - 1 <= Len(store.log)
    /\ \A k \in 1..Len(ops) : store.log[i + k - 1].op = ops[k]

----------------------------------------------------------------------------
(* Properties of the quality score *)

\* the final answer passes the three checks of _check_output_format
WellFormed(s) == s.final_answer = 10

\* the run made exactly one function call and it succeeded
OneSuccessfulCall(s) ==
    /\ Len(s.actions) = 1
    /\ Len(s.observations) = 1
    /\ s.observations[1].success

\* C24: a run that returns with exactly one action, one successful
\* observation and a well-formed final answer has status completed and a
\* quality_score of at least 0.75 (it is 0.85).
C24_OneCallCompletes ==
    (pc = "returned" /\ state.status # "failed"
       /\ OneSuccessfulCall(state) /\ WellFormed(state)) =>
        /\ state.status = "completed"
        /\ QualityAtLeast(state.quality_score, QualityThresholdV2)
        /\ state.quality_score[1] * 100 = 85 * state.quality_score[2]

\* C24 witness: such a run returned, and it took a single iteration
C24_Witness ==
    /\ pc = "returned"
    /\ state.status = "completed"
    /\ OneSuccessfulCall(state)
    /\ WellFormed(state)
    /\ state.current_step = 1
    /\ state.max_steps > 1

----------------------------------------------------------------------------
(* Properties of the user profiles *)

\* C26: at most one profile per user_id exists in every reachable state,
\* in the table and in the stub, and a get_or_create_profile call that ends
\* once a profile exists returns that profile.
C26_OneProfilePerUser ==
    /\ profiles.rows <= 1
    /\ profiles.stub <= 1
    /\ \A c \in Clients :
         profiles.calls[c].pc = "done" => profiles.calls[c].result = "profile"

----------------------------------------------------------------------------
(* Properties of the strategy order of synthesize *)

\* the `strategies` list of synthesize
StrategyOrder == <<"template", "extraction", "context_reuse", "llm">>

\* the strategy gave parameters and they pass _validate_parameters
Passes(t) == t.ok /\ validate_parameters(t.params, synth.function_schema)

\* C28: synthesize tries template, extraction, context reuse and LLM in
\* that order; it returns the parameters of the first strategy whose output
\* passes the validation, skipping those whose output does not, and returns
\* failure with no parameters only when no strategy's output passes.
C28_FirstPassingStrategyWins ==
    synth.pc = "done" =>
        /\ Len(synth.tried) <= Len(StrategyOrder)
        /\ \A i \in 1..Len(synth.tried) :
             synth.tried[i].strategy = StrategyOrder[i]
        /\ \A i \in 1..(Len(synth.tried) - 1) : ~Passes(synth.tried[i])
        /\ IF Passes(synth.tried[Len(synth.tried)])
           THEN /\ synth.success
                /\ synth.params = synth.tried[Len(synth.tried)].params
                /\ synth.strategy = synth.tried[Len(synth.tried)].strategy
           ELSE /\ ~synth.success
                /\ Len(synth.tried) = Len(StrategyOrder)
                /\ synth.params = << >>

----------------------------------------------------------------------------
(* Properties of the retries of sync events *)

\* the event is failed and has used all its retries
Exhausted(e) == e.sync_status = "failed" /\ e.retry_count >= MaxRetries

\* C30: retry_count never exceeds max_retries; a step changes retry_count
\* only by adding 1, and only together with status failed; a dispatch that
\* ends in synced leaves retry_count alone; an event that is failed with
\* retry_count = max_retries is never touched again.
C30_RetriesBounded ==
    [][ \A i \in 1..Len(events) :
          /\ events[i].retry_count <= MaxRetries
          /\ events'[i].retry_count <= MaxRetries
          /\ events'[i].retry_count \in
                 {events[i].retry_count, events[i].retry_count + 1}
          /\ events'[i].retry_count = events[i].retry_count + 1 =>
                 events'[i].sync_status = "failed"
          /\ events'[i].sync_status = "synced" =>
                 events'[i].retry_count = events[i].retry_count
          /\ Exhausted(events[i]) => events'[i] = events[i]
      ]_vars

\* an event in one of its two final states
Settled(e) == e.sync_status = "synced" \/ Exhausted(e)

\* C29: under a fairly scheduled worker that keeps being triggered, every
\* SyncEvent eventually reaches synced, or failed with retry_count =
\* max_retries; no event stays pending, processing or failed with retries left
C29_EveryEventSettles ==
    \A i \in 1..MaxLogged : <>(i > Len(events) \/ Settled(events[i]))

----------------------------------------------------------------------------
(* Properties of the request cache and of usage recording *)

\* C31: execute_function returns a cached result only when use_cache is true
\* and the function's cache_ttl is above 0, and then with success = true and
\* without an HTTP request; with cache_ttl = 0 no call returns cached = true
C31_CacheOnlyWithTtl ==
    [][ (exec.pc = "call" /\ exec'.pc = "back" /\ exec'.fn_cached) =>
          /\ exec.use_cache
          /\ exec.ttl > 0
          /\ exec'.fn_success
          /\ exec'.raised = ""
          /\ exec'.http = exec.http
      ]_vars

\* C32: a call that reached the HTTP stage calls update_usage_stats exactly
\* once and returns a result whose success is the recorded one, also when
\* recording the usage fails
C32_UsageRecordedOnce ==
    [][ exec.pc = "usage" =>
          /\ exec'.pc = "back"
          /\ exec'.raised = ""
          /\ exec'.fn_success = exec'.usage[Len(exec'.usage)]
      ]_vars

\* results with which a mutation is refused
Refusals == {"ValueError", "None", "False"}

\* the call of client c, a mutation, ends in this step
MutationEnds(c) ==
    /\ store.calls[c].op \in {"create", "update", "delete"}
    /\ InFlight(c)
    /\ store'.calls[c].pc = "done"

\* C33: create_function for an id whose row existed throughout the call
\* fails with the already-exists error (ValueError); a create_function,
\* update_function or delete_function that is refused leaves the row as it
\* was and writes no SyncEvent
C33_RefusedMutationChangesNothing ==
    [][ \A c \in Clients :
          MutationEnds(c) =>
            LET result == store'.log[Len(store'.log)].result
            IN /\ (store.calls[c].op = "create" /\ ~store.calls[c].absent) =>
                      result = "ValueError"
               /\ result \in Refusals =>
                      /\ store'.db = store.db
                      /\ store'.logged = store.logged
               /\ (store.calls[c].op # "create" /\ ~store.calls[c].live) =>
                      result \in Refusals
      ]_vars

\* C33 witness: a create_function on an existing id and a delete_function
\* on a missing id were both refused
C33_Witness ==
    /\ \E i \in 1..Len(store.log) :
          /\ store.log[i].op = "create" /\ store.log[i].result = "ValueError"
          /\ ~store.log[i].absent
    /\ \E i \in 1..Len(store.log) :
          /\ store.log[i].op \in {"update", "delete"}
          /\ store.log[i].result \in Refusals

\* a background task finishes the dispatch of an event in this step
DispatchStep ==
    \E w \in Workers : workers[w].pc = "dispatch" /\ workers'[w] # workers[w]

\* C34: the vector index changes only in a dispatch step of the sync worker
\* (process_event); no operation of the Function Registry writes it
C34_IndexWrittenByWorkerOnly ==
    [][ index' # index => DispatchStep ]_vars

\* the vectors the collection holds for a function id
VectorsOf(id) ==
    LET RECURSIVE Sum(_)
        Sum(S) == IF S = {} THEN 0
                  ELSE LET c == CHOOSE c \in S : TRUE
                       IN index[<<id, c>>] + Sum(S \ {c})
    IN Sum(Contents)

\* C39: the vector index holds at most one vector per entity_id in every
\* reachable state
C39_OneVectorPerEntity ==
    \A id \in Ids : VectorsOf(id) <= 1

----------------------------------------------------------------------------
(* Properties of function selection *)

\* C35: select_functions returns an empty function list only together with
\* confidence 0; a non-zero confidence comes with at least one function
C35_EmptyMeansZeroConfidence ==
    (sel.pc = "done" /\ ~sel.raised /\ sel.functions = {}) => sel.confidence = 0

----------------------------------------------------------------------------
(* Properties of execute_sequential *)

\* C36: a function is never executed with an empty or placeholder value in
\* place of a reference that could not be resolved
C36_UnresolvedReferenceNotExecuted ==
    \A k \in 1..Len(seq.sent) : seq.sent[k].parameters # "empty_dict"

----------------------------------------------------------------------------
(* Properties of plan construction *)

RECURSIVE Executable(_, _)
\* the steps that can ever complete, starting from the completed ones
Executable(pl, done) ==
    LET next == get_next_steps(pl, done)
    IN IF next = {} THEN done ELSE Executable(pl, done \cup next)

\* depends_on is a DAG over the plan's steps: every step can complete
IsDag(pl) == Executable(pl, {}) = 1..pl.steps

\* C37: no step of a plan whose depends_on has a cycle is ever executed, and
\* plan execution never ends with steps pending of which none is executable
C37_CyclicPlanRejected ==
    /\ ~IsDag(plan) => (state.actions = << >> /\ completed = {})
    /\ pc = "plan_done" =>
          ~(has_pending_steps(plan, completed)
              /\ get_next_steps(plan, completed) = {})

----------------------------------------------------------------------------
(* Properties of the quality score *)

\* C38: without a plan, completeness is min(successful observations / 2, 1):
\* failed observations do not raise it, and it is 0 when every observation
\* failed
C38_CompletenessCountsSuccesses ==
    LET c == check_completeness(state, 0)
    IN c[1] * NoPlanExpected =
          Min(SuccessCount(state.observations), NoPlanExpected) * c[2]

\* C40: concurrent runs on the shared ReactAgentV2 do not interfere: every
\* function call of a run is executed through the registry service bound
\* for that run's own request, also when another request has bound its
\* registry service on the agent while the run was in progress.
C40_OwnRegistryService ==
    \A r \in Requests :
        \A i \in 1..Len(shared.requests[r].used) :
            shared.requests[r].used[i].service = r

====
